---- MODULE Spec2Model ----
(***************************************************************************)
(* Model of the InterviewIQ research pipeline: the POST /api/research-guest *)
(* route, deepResearch (research.js) and the three stage functions of      *)
(* youtube.js (researchGuest, fetchTranscripts, analyzeVideosWithGemini).  *)
(*                                                                         *)
(* One action is one synchronous segment of the JavaScript code, from one  *)
(* await to the next: Node runs such a segment without interleaving.       *)
(* External services (YouTube search, transcript provider, Gemini,         *)
(* Wikipedia) answer nondeterministically; their answers are drawn with \E *)
(* inside the action that awaits them.                                     *)
(*                                                                         *)
(* Strings that the code inspects (names, titles) are sequences of         *)
(* one-character strings; texts the code only passes around (model output) *)
(* are opaque tokens, "" being the empty text.                             *)
(***************************************************************************)
EXTENDS Integers, Sequences, FiniteSets, TLC

\* ------------------------------------------------------------------ bounds
\* videos the provider knows in the small world
NumVideos == 4
\* most items one search response carries in the small world
MaxItems == 2
\* videos the provider knows in the bulk world (all without transcript)
BulkVideos == 17
\* longest run of consecutive failing model-watch calls in the bulk world
MaxFailLen == 6
\* most tokens of a subject name given to the relevance filter
MaxNameTokens == 2
\* most tokens of a candidate title given to the relevance filter
MaxTitleTokens == 2
\* fetchTranscripts alone: the most videos it is given
MaxInputVideos == 2
\* analyzeVideosWithGemini call by call: the most videos it is given
MaxWatchVideos == 4
\* the search loop alone: the most ids of a response the run has seen before
MaxRepeats == 1
\* the search loop alone: the videos the provider knows
CrowdVideos == 125
\* the progress display alone: the most events of a stream
MaxEvents == 4
\* the event stream alone: the most frames of a stream
MaxFrames == 3
\* the page: how often the user triggers a research
MaxTriggers == 3

\* ------------------------------------------------------- program constants
MAX_GEMINI_VIDEOS_FREE == 15
FreeMaxQuotaErrors == 3
FreeMaxVideoCap == 100
FreeMaxResults == 20
ProMaxResults == 50
FreeMaxConsecutiveFailures == 3
ProMaxConsecutiveFailures == 5
batchSize == 3
MaxSynthesisAttempts == 3
MinTextLength == 100
MaxTranscriptChars == 15000
MaxNameLength == 60
MaxQuestionAttempts == 2
QuotaCooldown == 20000

\* --------------------------------------------------------- string helpers
Min(a, b) == IF a <= b THEN a ELSE b

\* String.prototype.includes
Includes(s, p) ==
    \E i \in 0..(Len(s) - Len(p)) : SubSeq(s, i + 1, i + Len(p)) = p

\* String.prototype.toLowerCase on the letters the model uses
LowerChar(c) ==
    CASE c = "J" -> "j"
      [] c = "D" -> "d"
      [] c = "X" -> "x"
      [] c = "O" -> "o"
      [] c = "E" -> "e"
      [] c = "A" -> "a"
      [] c = "N" -> "n"
      [] c = "L" -> "l"
      [] OTHER -> c

toLowerCase(s) == [i \in 1..Len(s) |-> LowerChar(s[i])]

\* str.replace(/pat/g, rep): leftmost, non-overlapping, single pass
RECURSIVE ReplaceAll(_, _, _)
ReplaceAll(s, pat, rep) ==
    IF Len(s) < Len(pat) THEN s
    ELSE IF SubSeq(s, 1, Len(pat)) = pat
         THEN rep \o ReplaceAll(SubSeq(s, Len(pat) + 1, Len(s)), pat, rep)
         ELSE <<s[1]>> \o ReplaceAll(Tail(s), pat, rep)

IsSpace(c) == c \in {" ", "\n"}

\* str.split(/\s+/): the pieces between maximal runs of whitespace
RECURSIVE SplitWs(_, _, _)
SplitWs(s, cur, inGap) ==
    IF s = <<>> THEN <<cur>>
    ELSE IF IsSpace(s[1])
         THEN IF inGap THEN SplitWs(Tail(s), cur, TRUE)
              ELSE <<cur>> \o SplitWs(Tail(s), <<>>, TRUE)
         ELSE SplitWs(Tail(s), Append(cur, s[1]), FALSE)

split(s) == SplitWs(s, <<>>, FALSE)

RECURSIVE SelectLong(_)
SelectLong(parts) ==
    IF parts = <<>> THEN <<>>
    ELSE IF Len(Head(parts)) > 2
         THEN <<Head(parts)>> \o SelectLong(Tail(parts))
         ELSE SelectLong(Tail(parts))

Range(f) == {f[i] : i \in DOMAIN f}

\* the sequence has no repeated element
NoDup(s) == \A i, j \in 1..Len(s) : i # j => s[i] # s[j]

\* ------------------------------------------------------------- the inputs
\* "Jane Doe"
GuestName == <<"J", "a", "n", "e", " ", "D", "o", "e">>

\* youtube.js:35-51, the query templates (the quoted name is left out)
baseQueries ==
    <<"interview", "podcast", "conversation", "talk show",
      "interview full video", "podcast episode", "hi:interview", "hi:podcast">>

proExtraQueries ==
    <<"full episode", "keynote speech", "panel discussion", "QnA", "hi:talk">>

Queries(isPro) == IF isPro THEN baseQueries \o proExtraQueries ELSE baseQueries

maxResults(isPro) == IF isPro THEN ProMaxResults ELSE FreeMaxResults

\* maxVideoCap is Infinity in Pro mode: the comparison is then never true
ReachedVideoCap(isPro, n) == ~isPro /\ n >= FreeMaxVideoCap

maxQuotaErrorsNoFreeLimit(isPro) == Len(Queries(isPro))

\* youtube.js:55
maxQuotaErrors(isPro) == IF isPro THEN Len(Queries(isPro)) ELSE FreeMaxQuotaErrors

\* the transcript languages tried after the auto-detected retrieval threw
langs == <<"en", "hi", "es", "pt", "fr", "de", "ja", "ko", "ar", "ru", "zh">>

\* --------------------------------------- what the video provider knows
\* the snippet the search API returns for a video id
Snippet(bulk, id) ==
    IF bulk
    THEN [title |-> <<"J", "a", "n", "e", " ", "D", "o", "e">>,
          description |-> <<>>, channelTitle |-> <<"x">>]
    ELSE CASE id % 4 = 1 ->
                [title |-> <<"J", "a", "n", "e", " ", "D", "o", "e", " ", "x">>,
                 description |-> <<"x">>, channelTitle |-> <<"x">>]
           [] id % 4 = 2 ->
                [title |-> <<"x", "&", "a", "m", "p", ";", "x">>,
                 description |-> <<"j", "a", "n">>, channelTitle |-> <<"X">>]
           [] id % 4 = 3 ->
                [title |-> <<"x", " ", "D", "O", "E">> ,
                 description |-> <<>>, channelTitle |-> <<"x">>]
           [] OTHER ->
                [title |-> <<"x">>,
                 description |-> <<"d", "o", "e", " ", "x">>,
                 channelTitle |-> <<"j", "a", "n", "e">>]

\* publish dates, as day numbers
PublishedAt(bulk, id) == IF bulk THEN id ELSE (id * 2) % 5

\* youtube.js:116-119
decodeHtml(str) ==
    ReplaceAll(ReplaceAll(ReplaceAll(ReplaceAll(ReplaceAll(str,
        <<"&", "#", "3", "9", ";">>, <<"'">>),
        <<"&", "a", "m", "p", ";">>, <<"&">>),
        <<"&", "q", "u", "o", "t", ";">>, <<"\"">>),
        <<"&", "l", "t", ";">>, <<"<">>),
        <<"&", "g", "t", ";">>, <<">">>)

IsRelevantCaseSensitive(name, snip) ==
    LET nameParts == SelectLong(split(name))
        fullName == name
        firstName == IF nameParts = <<>> THEN <<>> ELSE nameParts[1]
        lastName == IF nameParts = <<>> THEN <<>> ELSE nameParts[Len(nameParts)]
        title == toLowerCase(decodeHtml(snip.title))
        desc == toLowerCase(decodeHtml(snip.description))
        channel == toLowerCase(decodeHtml(snip.channelTitle))
        all == title \o <<" ">> \o desc \o <<" ">> \o channel
    IN  \/ Includes(all, fullName)
        \/ lastName # <<>> /\ Includes(title, lastName)
        \/ firstName # <<>> /\ lastName # <<>>
             /\ Includes(all, firstName) /\ Includes(all, lastName)
        \/ Includes(channel, lastName) \/ Includes(channel, firstName)

\* youtube.js:121-138, the predicate of relevant = allVideos.filter(...)
IsRelevant(name, snip) ==
    LET nameParts == SelectLong(split(toLowerCase(name)))
        fullName == toLowerCase(name)
        firstName == IF nameParts = <<>> THEN <<>> ELSE nameParts[1]
        lastName == IF nameParts = <<>> THEN <<>> ELSE nameParts[Len(nameParts)]
        title == toLowerCase(decodeHtml(snip.title))
        desc == toLowerCase(decodeHtml(snip.description))
        channel == toLowerCase(decodeHtml(snip.channelTitle))
        all == title \o <<" ">> \o desc \o <<" ">> \o channel
    IN  \/ Includes(all, fullName)
        \/ lastName # <<>> /\ Includes(title, lastName)
        \/ firstName # <<>> /\ lastName # <<>>
             /\ Includes(all, firstName) /\ Includes(all, lastName)
        \/ Includes(channel, lastName) \/ Includes(channel, firstName)

RECURSIVE FilterRelevant(_, _, _)
FilterRelevant(bulk, name, vids) ==
    IF vids = <<>> THEN <<>>
    ELSE IF IsRelevant(name, Snippet(bulk, Head(vids)))
         THEN <<Head(vids)>> \o FilterRelevant(bulk, name, Tail(vids))
         ELSE FilterRelevant(bulk, name, Tail(vids))

\* youtube.js:142, a stable sort, most recent first
RECURSIVE InsertByDate(_, _, _)
InsertByDate(bulk, sorted, v) ==
    IF sorted = <<>> THEN <<v>>
    ELSE IF PublishedAt(bulk, Head(sorted)) >= PublishedAt(bulk, v)
         THEN <<Head(sorted)>> \o InsertByDate(bulk, Tail(sorted), v)
         ELSE <<v>> \o sorted

RECURSIVE SortByDate(_, _, _)
SortByDate(bulk, vids, acc) ==
    IF vids = <<>> THEN acc
    ELSE SortByDate(bulk, Tail(vids), InsertByDate(bulk, acc, Head(vids)))

\* youtube.js:85-97, the loop over response.data.items
RECURSIVE AddItemsNoSeenCheck(_, _)
AddItemsNoSeenCheck(acc, items) ==
    IF items = <<>> THEN acc
    ELSE AddItemsNoSeenCheck(Append(acc, Head(items)), Tail(items))

RECURSIVE AddItems(_, _)
AddItems(acc, items) ==
    IF items = <<>> THEN acc
    ELSE IF Head(items) \in Range(acc)
         THEN AddItems(acc, Tail(items))
         ELSE AddItems(Append(acc, Head(items)), Tail(items))

\* ---------------------------------------------------------------- state
VARIABLES
    world,          \* "small" or "bulk": which provider data the run meets
    oracle,         \* bulk world: the window of model-watch calls that fail
    entry,          \* "route": POST /api/research-guest, "direct": a caller of deepResearch
    request,        \* [authOk, guestName] of the HTTP request
    userKeys,       \* the userKeys argument of deepResearch
    env,            \* process.env: which default keys are configured
    pc,             \* the await the run is suspended at
    httpStatus,     \* 0: nothing sent, 200: event stream opened, 400/401: rejected
    events,         \* the onProgress calls, in order
    res,            \* the frames written to the response stream
    resEnded,       \* res.end() was called
    searchName,
    queryIndex, allVideos, quotaErrors, queriesIssued,
    sawDuplicate,   \* history: the search returned an item whose id was already seen
    ytResult, ytError,
    scanned, transcripts, failedVideos, lastAttempts,
    watchIndex, results, consecutiveFailures, watchCalls, watchStopped,
    geminiAnalyzed,
    attempt, synthesisCalls, metadataCalls, waits, videoAnalysis,
    synthesisLog,   \* history: how each deep-synthesis call ended
    metadataLog,    \* history: how each metadata call ended
    web, wiki,
    thrown,         \* the message of an exception that left deepResearch, "" if none
    report,
    candidate,      \* relevance filter alone: the video v the predicate is applied to
    kept,           \* relevance filter alone: what the predicate returned for v
    wikiScenario,   \* fetchWikipedia alone: how Wikipedia answers each request
    wikiRequests,   \* fetchWikipedia alone: the HTTP requests issued, in order
    resp,           \* fetchWikipedia alone: the status of the local resp
    disconnected,   \* the client closed the connection of the event stream
    callsAtDisconnect, \* history: external calls issued when it did so
    nameAnswer,     \* name check alone: what the correction call does
    tracks,         \* fetchTranscripts alone: what the provider holds per video
    langIndex,      \* fetchTranscripts alone: position of tryLang in langs
    segments,       \* fetchTranscripts alone: the local segments
    lang,           \* fetchTranscripts alone: the local lang
    modelIndex,     \* generateQuestions: position of modelName in MODELS
    questionCalls,  \* generateQuestions: the generateContent calls, in order
    lastError,      \* generateQuestions: the local lastError
    questionsResult,\* generateQuestions: the value returned
    watchBehaviour, \* model watch alone: how the model answers the call for each video
    call,           \* model watch alone: the generateContent request of each video
    settled,        \* model watch alone: how each analyzeVideoWithGemini promise settled
    stepsEl,        \* progress display alone: the rows of the progress list, in order
    stepElements,   \* progress display alone: the local stepElements, stage to row
    titleEl,        \* progress display alone: the text of the progress title
    fed,            \* history: the events addOrUpdateStep was called with
    stream,         \* event stream alone: the frames the server wrote to the response
    delivered,      \* event stream alone: how many of their characters the reader has handed over
    buffer,         \* event stream alone: the local buffer of the read loop
    handled,        \* history: the events the read loop parsed and dispatched
    isResearching,  \* page: the lock of researchGuest
    researchData,   \* page: the global researchData, the run it came from (0: null)
    progressEl,     \* page: style.display of the progress panel
    researchResults,\* page: style.display of the results panel and the run it shows
    timers,         \* page: the runs whose 800 ms display timer is pending
    invocations,    \* page: where each researchGuest call that sent a request is suspended
    triggers        \* history: what each use of the button or the Enter key led to

vars == <<world, oracle, entry, request, userKeys, env, pc, httpStatus, events,
          res, resEnded, searchName, queryIndex, allVideos, quotaErrors,
          queriesIssued, sawDuplicate, ytResult, ytError, scanned,
          transcripts, failedVideos, lastAttempts, watchIndex, results,
          consecutiveFailures, watchCalls, watchStopped, geminiAnalyzed,
          attempt, synthesisCalls, metadataCalls, waits,
          videoAnalysis, synthesisLog, metadataLog, web, wiki, thrown, report,
          candidate, kept, wikiScenario, wikiRequests, resp,
          disconnected, callsAtDisconnect, nameAnswer,
          tracks, langIndex, segments, lang,
          modelIndex, questionCalls, lastError, questionsResult,
          watchBehaviour, call, settled,
          stepsEl, stepElements, titleEl, fed,
          stream, delivered, buffer, handled,
          isResearching, researchData, progressEl, researchResults, timers, invocations, triggers>>

inputVars == <<world, oracle, entry, request, userKeys, env>>
searchVars == <<queryIndex, allVideos, quotaErrors, queriesIssued, sawDuplicate>>
transcriptVars == <<scanned, transcripts, failedVideos, lastAttempts>>
watchVars == <<watchIndex, results, consecutiveFailures, watchCalls,
               watchStopped, geminiAnalyzed>>
synthVars == <<attempt, synthesisCalls, metadataCalls, waits, videoAnalysis,
               synthesisLog, metadataLog>>
tailVars == <<web, wiki, thrown, report>>
filterVars == <<candidate, kept>>
wikiVars == <<wikiScenario, wikiRequests, resp>>
clientVars == <<disconnected, callsAtDisconnect>>
nameVars == <<nameAnswer>>
trackVars == <<tracks, langIndex, segments, lang>>
questionVars == <<modelIndex, questionCalls, lastError, questionsResult>>
callVars == <<watchBehaviour, call, settled>>
displayVars == <<stepsEl, stepElements, titleEl, fed>>
streamVars == <<stream, delivered, buffer, handled>>
pageVars == <<isResearching, researchData, progressEl, researchResults, timers, invocations, triggers>>
otherVars == <<clientVars, nameVars, trackVars, questionVars, callVars, displayVars, streamVars, pageVars>>

bulk == world = "bulk"

\* research.js:20
isPro == userKeys.hasCustomKey

\* youtube.js:9 and youtube.js:21, key = customKey || process.env.X
youtubeKey == userKeys.youtubeApiKey \/ env.YOUTUBE_API_KEY
geminiKey == userKeys.geminiApiKey \/ env.GEMINI_API_KEY

\* part_001:127-129
Event(step, status) == [type |-> "progress", step |-> step, status |-> status]

NoReport == [kind |-> "none"]

\* auth.js:287-305 / part_001:108-110: the keys the route hands to deepResearch
\* carry youtubeApiKey and geminiApiKey and no hasCustomKey field
getUserKeys(stored) ==
    [youtubeApiKey |-> stored, geminiApiKey |-> stored, hasCustomKey |-> FALSE]

\* the key configurations of a route request: the user stored no key and the
\* process has both default keys, or lacks one of them
KeyConfigs ==
    { [stored |-> FALSE, env |-> [YOUTUBE_API_KEY |-> TRUE, GEMINI_API_KEY |-> TRUE]],
      [stored |-> FALSE, env |-> [YOUTUBE_API_KEY |-> FALSE, GEMINI_API_KEY |-> TRUE]],
      [stored |-> FALSE, env |-> [YOUTUBE_API_KEY |-> TRUE, GEMINI_API_KEY |-> FALSE]] }

\* a direct caller of deepResearch passes its own keys and asks for Pro mode
DirectUserKeys ==
    [youtubeApiKey |-> TRUE, geminiApiKey |-> TRUE, hasCustomKey |-> TRUE]

\* the locals of deepResearch and of the stage functions before the run
InitRun ==
    /\ httpStatus = 0
    /\ events = <<>>
    /\ res = <<>>
    /\ resEnded = FALSE
    /\ queryIndex = 1 /\ allVideos = <<>> /\ quotaErrors = 0
    /\ queriesIssued = 0 /\ sawDuplicate = FALSE
    /\ ytResult = [interviews |-> <<>>, totalInterviewsFound |-> 0]
    /\ ytError = ""
    /\ scanned = 0 /\ transcripts = <<>> /\ failedVideos = <<>>
    /\ lastAttempts = <<>>
    /\ watchIndex = 1 /\ results = <<>> /\ consecutiveFailures = 0
    /\ watchCalls = 0 /\ watchStopped = FALSE /\ geminiAnalyzed = <<>>
    /\ attempt = 1 /\ synthesisCalls = 0 /\ metadataCalls = 0 /\ waits = <<>>
    /\ videoAnalysis = ""
    /\ synthesisLog = <<>> /\ metadataLog = <<>>
    /\ web = [profile |-> "", source |-> "null", sources |-> 0] /\ wiki = ""
    /\ thrown = ""
    /\ report = NoReport

\* the relevance filter is not looked at on its own
NoFilter ==
    /\ candidate = [title |-> <<>>, description |-> <<>>, channelTitle |-> <<>>]
    /\ kept = "unknown"

\* fetchWikipedia is not looked at on its own
NoWiki ==
    /\ wikiScenario = [first |-> "200", search |-> "miss", second |-> "404",
                       summary |-> "ok", full |-> "long"]
    /\ wikiRequests = <<>>
    /\ resp = ""

\* the client stays connected
NoClient ==
    /\ disconnected = FALSE
    /\ callsAtDisconnect = 0

\* the name check is not looked at on its own
NoName == nameAnswer = [kind |-> "none", text |-> <<>>]

\* fetchTranscripts is not looked at on its own
NoTracks ==
    /\ tracks = <<>>
    /\ langIndex = 0
    /\ segments = "null"
    /\ lang = "unknown"

\* no question generation is running
NoQuestions ==
    /\ modelIndex = 1
    /\ questionCalls = <<>>
    /\ lastError = "null"
    /\ questionsResult = [kind |-> "none"]

\* analyzeVideosWithGemini is not looked at call by call
NoCalls ==
    /\ watchBehaviour = <<>>
    /\ call = <<>>
    /\ settled = <<>>

\* the progress display is not looked at on its own
NoDisplay ==
    /\ stepsEl = <<>>
    /\ stepElements = <<>>
    /\ titleEl = ""
    /\ fed = <<>>

\* the read loop of the client is not looked at on its own
NoStream ==
    /\ stream = <<>>
    /\ delivered = 0
    /\ buffer = <<>>
    /\ handled = <<>>

\* no page is looked at
NoPage ==
    /\ isResearching = FALSE
    /\ researchData = 0
    /\ progressEl = "none"
    /\ researchResults = [display |-> "none", data |-> 0]
    /\ timers = {}
    /\ invocations = <<>>
    /\ triggers = <<>>

InitLocals ==
    /\ pc = "request"
    /\ searchName = <<>>
    /\ InitRun
    /\ NoFilter
    /\ NoWiki
    /\ NoClient /\ NoName /\ NoTracks /\ NoQuestions /\ NoCalls /\ NoDisplay /\ NoStream /\ NoPage

InitInputs ==
    /\ entry \in {"route", "direct"}
    /\ IF entry = "route"
       THEN /\ request \in [authOk : BOOLEAN, guestName : {<<>>, GuestName}]
            /\ \E k \in KeyConfigs :
                 /\ env = k.env
                 /\ userKeys = getUserKeys(k.stored)
       ELSE /\ request = [authOk |-> TRUE, guestName |-> GuestName]
            /\ env = [YOUTUBE_API_KEY |-> FALSE, GEMINI_API_KEY |-> FALSE]
            /\ userKeys = DirectUserKeys

\* the small world: few videos, every external call answers freely
InitSmall ==
    /\ world = "small"
    /\ oracle = [failFrom |-> 1, failLen |-> 0]
    /\ InitInputs
    /\ InitLocals

\* the bulk world: many videos without transcript; the model-watch calls
\* numbered failFrom .. failFrom + failLen - 1 fail, the others succeed
InitBulk ==
    /\ world = "bulk"
    /\ oracle \in { o \in [failFrom : 1..BulkVideos, failLen : 0..MaxFailLen] :
                      o.failLen = 0 => o.failFrom = 1 }
    /\ InitInputs
    /\ InitLocals

Init == InitSmall \/ InitBulk

\* ------------------------------------------------------- progress channel
\* part_001:127-129: onProgress writes one frame per event to the response
Emit(evs) ==
    /\ events' = events \o evs
    /\ res' = IF entry = "route" THEN res \o evs ELSE res

\* ----------------------------------------------------------------- route
\* auth.js:55-67, authMiddleware: no valid bearer token, 401
RouteReject401 ==
    /\ pc = "request" /\ entry = "route"
    /\ ~request.authOk
    /\ httpStatus' = 401
    /\ pc' = "rejected"
    /\ UNCHANGED <<inputVars, otherVars, filterVars, wikiVars, events, res, resEnded, searchName, searchVars,
                   ytResult, ytError, transcriptVars, watchVars, synthVars, tailVars>>

RouteNoNameCheck ==
    /\ pc = "request" /\ entry = "route"
    /\ request.authOk
    /\ request.guestName = <<>>
    /\ httpStatus' = 200
    /\ Emit(<<Event("start", "active"), Event("name_check", "active")>>)
    /\ pc' = "name_check"
    /\ UNCHANGED <<inputVars, otherVars, filterVars, wikiVars, resEnded, searchName, searchVars,
                   ytResult, ytError, transcriptVars, watchVars, synthVars, tailVars>>

\* part_001:115-116
RouteReject400 ==
    /\ pc = "request" /\ entry = "route"
    /\ request.authOk
    /\ request.guestName = <<>>
    /\ httpStatus' = 400
    /\ pc' = "rejected"
    /\ UNCHANGED <<inputVars, otherVars, filterVars, wikiVars, events, res, resEnded, searchName, searchVars,
                   ytResult, ytError, transcriptVars, watchVars, synthVars, tailVars>>

\* part_001:119-133 and research.js:17-30: the stream is opened and
\* deepResearch runs up to its first await
RouteStart ==
    /\ pc = "request"
    /\ entry = "route" => request.authOk /\ request.guestName # <<>>
    /\ httpStatus' = IF entry = "route" THEN 200 ELSE 0
    /\ Emit(<<Event("start", "active"), Event("name_check", "active")>>)
    /\ pc' = "name_check"
    /\ UNCHANGED <<inputVars, otherVars, filterVars, wikiVars, resEnded, searchName, searchVars,
                   ytResult, ytError, transcriptVars, watchVars, synthVars, tailVars>>

\* ------------------------------------------------------------ name check
LongText == [i \in 1..(MaxNameLength + 1) |-> "x"]

\* String.prototype.trim
RECURSIVE TrimLeft(_)
TrimLeft(s) == IF s # <<>> /\ IsSpace(Head(s)) THEN TrimLeft(Tail(s)) ELSE s

RECURSIVE TrimRight(_)
TrimRight(s) ==
    IF s # <<>> /\ IsSpace(s[Len(s)]) THEN TrimRight(SubSeq(s, 1, Len(s) - 1)) ELSE s

trim(s) == TrimRight(TrimLeft(s))

correctGuestNameUnchecked(name, text) == trim(text)

\* research.js:237-240: what correctGuestName returns for the model's text
correctGuestName(name, text) ==
    LET corrected == trim(text)
    IN  IF Len(corrected) > MaxNameLength \/ "\n" \in Range(corrected)
        THEN name
        ELSE corrected

\* the texts the name-correction model answers with
NameTexts ==
    { GuestName \o <<" ">>, LongText, <<"J", "a", "n", "e", "\n", "D", "o", "e">> }

\* the ways the correction call ends: it throws, or the model answers
NameAnswers ==
    {[kind |-> "throws", text |-> <<>>]}
    \cup (IF geminiKey THEN [kind : {"text"}, text : NameTexts] ELSE {})

\* research.js:28-46, for one way the correction call ends
NameCheckGiven(answer) ==
    /\ pc = "name_check"
    /\ searchName' = IF answer.kind = "throws"
                     THEN request.guestName
                     ELSE correctGuestName(request.guestName, answer.text)
    /\ Emit(<<Event("name_check", "done"), Event("youtube", "active")>>)
    /\ pc' = "youtube"
    /\ UNCHANGED <<inputVars, otherVars, filterVars, wikiVars, httpStatus, resEnded, searchVars,
                   ytResult, ytError, transcriptVars, watchVars, synthVars, tailVars>>

NameCheck == \E answer \in NameAnswers : NameCheckGiven(answer)

\* ---------------------------------------------------------- media search
\* what yt.search.list answers to one query: it throws with a message, or
\* returns data without items, or returns at most maxResults items
SearchResponses ==
    IF bulk
    THEN { [kind |-> "items", msg |-> "",
            items |-> [i \in 1..Min(maxResults(isPro), BulkVideos - Len(allVideos))
                         |-> Len(allVideos) + i]] }
         \cup (IF allVideos = <<>>
               THEN { [kind |-> "throws", msg |-> "quotaExceeded", items |-> <<>>] }
               ELSE {})
    ELSE { [kind |-> "throws", msg |-> m, items |-> <<>>] :
              m \in {"quotaExceeded", "backendError"} }
         \cup { [kind |-> "noitems", msg |-> "", items |-> <<>>] }
         \cup { [kind |-> "items", msg |-> "", items |-> its] :
                  its \in UNION { [1..n -> 1..NumVideos] : n \in 0..MaxItems } }

\* youtube.js:101: msg.includes('quota') || msg.includes('Quota') || msg.includes('exceeded')
IsQuotaError(msg) == msg \in {"quotaExceeded", "Quota exceeded", "dailyLimitExceeded"}

\* youtube.js:63-73: the loop goes on to the next query
SearchLoopContinues ==
    /\ queryIndex <= Len(Queries(isPro))
    /\ ~ReachedVideoCap(isPro, Len(allVideos))
    /\ quotaErrors < maxQuotaErrors(isPro)

\* youtube.js:85-104: what the answer r to one query leaves in the loop's
\* variables: the items whose id is new are appended, a quota error is counted
SearchOutcome(r) ==
    LET added == AddItems(allVideos, r.items)
    IN  [allVideos |-> IF r.kind = "items" THEN added ELSE allVideos,
         quotaErrors |-> IF r.kind = "throws" /\ IsQuotaError(r.msg)
                         THEN quotaErrors + 1 ELSE quotaErrors,
         sawDuplicate |-> (sawDuplicate \/
                             Len(added) < Len(allVideos) + Len(r.items))]

\* youtube.js:74-107: one query, its answer handled with the outcome o
SearchStep(o) ==
    /\ pc = "youtube"
    /\ youtubeKey
    /\ SearchLoopContinues
    /\ allVideos' = o.allVideos
    /\ quotaErrors' = o.quotaErrors
    /\ sawDuplicate' = o.sawDuplicate
    /\ queriesIssued' = queriesIssued + 1
    /\ queryIndex' = queryIndex + 1
    /\ UNCHANGED <<inputVars, otherVars, filterVars, wikiVars, pc, httpStatus, events, res, resEnded, searchName,
                   ytResult, ytError, transcriptVars, watchVars, synthVars, tailVars>>

\* youtube.js:74-107: one query and the handling of its answer r
SearchQueryGiven(r) == SearchStep(SearchOutcome(r))

\* answers that leave the same outcome are one step
SearchQuery ==
    /\ pc = "youtube"
    /\ youtubeKey
    /\ SearchLoopContinues
    /\ \E o \in {SearchOutcome(r) : r \in SearchResponses} : SearchStep(o)

\* youtube.js:111: the condition of the QUOTA_EXHAUSTED throw
ThrowsQuotaExhausted(quota, issued, collected) == quota > 0 /\ collected = 0

\* youtube.js:110-148: the loop is over, researchGuest throws or returns
SearchExit ==
    /\ pc = "youtube"
    /\ youtubeKey
    /\ ~SearchLoopContinues
    /\ IF ThrowsQuotaExhausted(quotaErrors, queriesIssued, Len(allVideos))
       THEN /\ ytError' = "QUOTA_EXHAUSTED"
            /\ UNCHANGED ytResult
       ELSE LET relevant == SortByDate(bulk,
                                FilterRelevant(bulk, searchName, allVideos), <<>>)
            IN  /\ ytResult' = [interviews |-> relevant,
                                totalInterviewsFound |-> Len(relevant)]
                /\ UNCHANGED ytError
    /\ pc' = "youtube_return"
    /\ UNCHANGED <<inputVars, otherVars, filterVars, wikiVars, httpStatus, events, res, resEnded, searchName,
                   searchVars, transcriptVars, watchVars, synthVars, tailVars>>

\* youtube.js:8-11 and youtube.js:32: no key, createYoutubeClient throws
SearchNoKey ==
    /\ pc = "youtube"
    /\ ~youtubeKey
    /\ ytError' = "YouTube API Key is missing"
    /\ pc' = "youtube_return"
    /\ UNCHANGED <<inputVars, otherVars, filterVars, wikiVars, httpStatus, events, res, resEnded, searchName,
                   searchVars, ytResult, transcriptVars, watchVars, synthVars, tailVars>>

\* ------------------------------------------- deepResearch between stages
ToMetadataIgnoresAnalysis(analysis) ==
    IF Len(ytResult.interviews) > 0
    THEN [evs |-> <<Event("analyze_videos", "active")>>, pc |-> "metadata"]
    ELSE [evs |-> <<Event("web_search", "active")>>, pc |-> "web_search"]

\* research.js:142-155: the metadata fallback runs, or the web stage starts
ToMetadata(analysis) ==
    IF analysis = "" /\ Len(ytResult.interviews) > 0
    THEN [evs |-> <<Event("analyze_videos", "active")>>, pc |-> "metadata"]
    ELSE [evs |-> <<Event("web_search", "active")>>, pc |-> "web_search"]

\* research.js:106-116: the synthesis starts if any content was analyzed
ToSynthesis(content) ==
    IF Len(content) > 0
    THEN [evs |-> <<Event("analyze_videos", "active")>>, pc |-> "analyze_videos"]
    ELSE ToMetadata("")

\* research.js:86-91: the model-watch stage starts if any video lacks a transcript
ToWatch(accepted, failed) ==
    IF Len(failed) > 0
    THEN [evs |-> <<Event("gemini_video", "active")>>, pc |-> "gemini_video"]
    ELSE ToSynthesis(accepted)

ToTranscriptsAlways(interviews) ==
    [evs |-> <<Event("transcripts", "active")>>, pc |-> "transcripts"]

\* research.js:61-62: the transcript stage starts if any video was found
ToTranscripts(interviews) ==
    IF Len(interviews) > 0
    THEN [evs |-> <<Event("transcripts", "active")>>, pc |-> "transcripts"]
    ELSE ToWatch(<<>>, <<>>)

CatchSearchErrorSilent(err) == [thrown |-> "", evs |-> <<>>]

\* research.js:52-55: the catch around the search: the error becomes a
\* progress event and the run goes on with no videos
CatchSearchError(err) ==
    [thrown |-> "", evs |-> <<Event("youtube", "error")>>]

\* research.js:48-62: the search returned or threw
AfterSearch ==
    /\ pc = "youtube_return"
    /\ LET caught == IF ytError = ""
                     THEN [thrown |-> "", evs |-> <<Event("youtube", "done")>>]
                     ELSE CatchSearchError(ytError)
           next == ToTranscripts(ytResult.interviews)
       IN  IF caught.thrown # ""
           THEN /\ thrown' = caught.thrown
                /\ pc' = "returned"
                /\ Emit(caught.evs)
           ELSE /\ Emit(caught.evs \o next.evs)
                /\ pc' = next.pc
                /\ UNCHANGED thrown
    /\ queryIndex' = 1 /\ allVideos' = <<>> /\ quotaErrors' = 0 /\ queriesIssued' = 0
    /\ sawDuplicate' = FALSE
    /\ UNCHANGED <<inputVars, otherVars, filterVars, wikiVars, httpStatus, resEnded, searchName, ytResult, ytError,
                   transcriptVars, watchVars, synthVars, web, wiki, report>>

\* ------------------------------------------------------ transcript fetch
\* what the transcript provider holds for one video: how the auto-detected
\* retrieval answers, the language its segments carry (<<>>: no lang field),
\* the languages a retrieval by code yields segments for, and the length of
\* the joined, entity-decoded, whitespace-normalised text
Tracks ==
    IF bulk
    THEN { [auto |-> "throws", autoLang |-> "", avail |-> {}, len |-> 0] }
    ELSE { [auto |-> "ok", autoLang |-> "en", avail |-> {"en"}, len |-> MinTextLength + 1],
           [auto |-> "ok", autoLang |-> "", avail |-> {}, len |-> MinTextLength],
           [auto |-> "empty", autoLang |-> "", avail |-> {}, len |-> 0],
           [auto |-> "throws", autoLang |-> "", avail |-> {"hi", "zh"},
            len |-> MinTextLength + 1],
           [auto |-> "throws", autoLang |-> "", avail |-> {}, len |-> 0] }

\* youtube.js:170-179: the position in langs of the first code that yields
\* segments, 0 if none does
RECURSIVE FirstAvailable(_, _)
FirstAvailable(avail, i) ==
    IF i > Len(langs) THEN 0
    ELSE IF langs[i] \in avail THEN i
    ELSE FirstAvailable(avail, i + 1)

RetrieveTranscriptRetriesAuto(track) ==
    IF track.auto = "ok"
    THEN [attempts |-> <<"auto">>, hasSegments |-> TRUE,
          lang |-> IF track.autoLang = "" THEN "auto" ELSE track.autoLang]
    ELSE IF track.auto = "empty"
    THEN [attempts |-> <<"auto">>, hasSegments |-> FALSE, lang |-> "unknown"]
    ELSE LET k == FirstAvailable(track.avail, 1)
         IN  IF k > 0
             THEN [attempts |-> <<"auto">> \o SubSeq(langs, 1, k),
                   hasSegments |-> TRUE, lang |-> langs[k]]
             ELSE [attempts |-> <<"auto">> \o langs \o <<"auto">>,
                   hasSegments |-> FALSE, lang |-> "unknown"]

\* youtube.js:161-180: the retrievals made for one video and what they leave
\* in segments and lang
RetrieveTranscript(track) ==
    IF track.auto = "ok"
    THEN [attempts |-> <<"auto">>, hasSegments |-> TRUE,
          lang |-> IF track.autoLang = "" THEN "auto" ELSE track.autoLang]
    ELSE IF track.auto = "empty"
    THEN [attempts |-> <<"auto">>, hasSegments |-> FALSE, lang |-> "unknown"]
    ELSE LET k == FirstAvailable(track.avail, 1)
         IN  IF k > 0
             THEN [attempts |-> <<"auto">> \o SubSeq(langs, 1, k),
                   hasSegments |-> TRUE, lang |-> langs[k]]
             ELSE [attempts |-> <<"auto">> \o langs,
                   hasSegments |-> FALSE, lang |-> "unknown"]

\* youtube.js:182-208: is the retrieved text accepted as a transcript
AcceptsTranscript(r, len) == r.hasSegments /\ len > MinTextLength

StoredCharsUncut(len) == len

\* youtube.js:199: fullText.substring(0, 15000), as a length
StoredChars(len) == Min(len, MaxTranscriptChars)

PushFailedAlways(failed, video, accepted) == Append(failed, video)

\* youtube.js:194-208: a video goes to failed only if no transcript was accepted
PushFailed(failed, video, accepted) ==
    IF accepted THEN failed ELSE Append(failed, video)

\* youtube.js:159-221: one iteration of the loop of fetchTranscripts
FetchTranscript ==
    /\ pc = "transcripts"
    /\ scanned < Len(ytResult.interviews)
    /\ \E track \in Tracks :
         LET video == ytResult.interviews[scanned + 1]
             r == RetrieveTranscript(track)
         IN  /\ lastAttempts' = r.attempts
             /\ IF AcceptsTranscript(r, track.len)
                THEN /\ transcripts' = Append(transcripts,
                            [videoId |-> video, lang |-> r.lang,
                             chars |-> StoredChars(track.len),
                             source |-> "transcript"])
                ELSE UNCHANGED transcripts
             /\ failedVideos' = PushFailed(failedVideos, video,
                                           AcceptsTranscript(r, track.len))
    /\ scanned' = scanned + 1
    /\ Emit(<<Event("transcripts", "active")>>)
    /\ UNCHANGED <<inputVars, otherVars, filterVars, wikiVars, pc, httpStatus, resEnded, searchName, searchVars,
                   ytResult, ytError, watchVars, synthVars, tailVars>>

\* youtube.js:223-224 and research.js:65-91: fetchTranscripts returns
AfterTranscripts ==
    /\ pc = "transcripts"
    /\ scanned = Len(ytResult.interviews)
    /\ LET next == ToWatch(transcripts, failedVideos)
       IN  /\ Emit(<<Event("transcripts", "done")>> \o next.evs)
           /\ pc' = next.pc
    /\ lastAttempts' = <<>>
    /\ UNCHANGED <<inputVars, otherVars, filterVars, wikiVars, httpStatus, resEnded, searchName, searchVars,
                   ytResult, ytError, scanned, transcripts, failedVideos,
                   watchIndex, results, consecutiveFailures, watchCalls,
                   watchStopped, geminiAnalyzed, synthVars, tailVars>>

\* ----------------------------------------------------------- model watch
\* youtube.js:291
MAX_GEMINI_VIDEOS(pro, videos) == IF pro THEN Len(videos) ELSE MAX_GEMINI_VIDEOS_FREE

videosToAnalyzeUncapped(pro, videos) == videos

\* youtube.js:292
videosToAnalyze(pro, videos) ==
    SubSeq(videos, 1, Min(Len(videos), MAX_GEMINI_VIDEOS(pro, videos)))

maxConsecutiveFailuresAlwaysPro(pro) == ProMaxConsecutiveFailures

\* youtube.js:294
maxConsecutiveFailures(pro) ==
    IF pro THEN ProMaxConsecutiveFailures ELSE FreeMaxConsecutiveFailures

\* how the model answers the call for the i-th video to analyze: a text
\* longer than 100 characters, a shorter one, an error, or nothing within
\* the 30 seconds of the timeout
WatchOutcomes(i) ==
    IF bulk
    THEN { IF oracle.failFrom <= i /\ i < oracle.failFrom + oracle.failLen
           THEN "error" ELSE "ok" }
    ELSE {"ok", "short", "error", "timeout"}

\* youtube.js:253-283: the record analyzeVideoWithGemini returns, or null
analyzeVideoWithGemini(video, outcome) ==
    IF outcome = "ok"
    THEN <<[videoId |-> video, lang |-> "gemini-analyzed",
            chars |-> MinTextLength + 1, source |-> "gemini-video"]>>
    ELSE <<>>

WatchProgressAsTranscripts == Event("transcripts", "active")

\* youtube.js:320-325 and youtube.js:361-366: the progress event of one call or batch
WatchProgress == Event("gemini_video", "active")

\* youtube.js:349-379, Free mode: one iteration that issues a call
WatchVideo ==
    /\ pc = "gemini_video"
    /\ geminiKey /\ ~isPro /\ ~watchStopped
    /\ watchIndex <= Len(videosToAnalyze(isPro, failedVideos))
    /\ consecutiveFailures < maxConsecutiveFailures(isPro)
    /\ \E o \in WatchOutcomes(watchIndex) :
         LET r == analyzeVideoWithGemini(
                      videosToAnalyze(isPro, failedVideos)[watchIndex], o)
         IN  /\ results' = results \o r
             /\ consecutiveFailures' = IF r # <<>> THEN 0
                                       ELSE consecutiveFailures + 1
    /\ watchCalls' = watchCalls + 1
    /\ watchIndex' = watchIndex + 1
    /\ Emit(<<WatchProgress>>)
    /\ UNCHANGED <<inputVars, otherVars, filterVars, wikiVars, pc, httpStatus, resEnded, searchName, searchVars,
                   ytResult, ytError, transcriptVars, watchStopped,
                   geminiAnalyzed, synthVars, tailVars>>

RECURSIVE BatchResults(_, _, _)
BatchResults(batch, outcome, k) ==
    IF k > Len(batch) THEN <<>>
    ELSE analyzeVideoWithGemini(batch[k], outcome[k])
           \o BatchResults(batch, outcome, k + 1)

\* youtube.js:307-346, Pro mode: one batch of concurrent calls
WatchBatch ==
    /\ pc = "gemini_video"
    /\ geminiKey /\ isPro /\ ~watchStopped
    /\ watchIndex <= Len(videosToAnalyze(isPro, failedVideos))
    /\ consecutiveFailures < maxConsecutiveFailures(isPro)
    /\ LET vta == videosToAnalyze(isPro, failedVideos)
           batch == SubSeq(vta, watchIndex, Min(watchIndex + batchSize - 1, Len(vta)))
       IN  /\ \E outcome \in [1..Len(batch) -> UNION {WatchOutcomes(watchIndex + k - 1) : k \in 1..Len(batch)}] :
                /\ \A k \in 1..Len(batch) : outcome[k] \in WatchOutcomes(watchIndex + k - 1)
                /\ LET batchResults == BatchResults(batch, outcome, 1)
                       batchFailed == Len(batch) - Len(batchResults)
                   IN  /\ results' = results \o batchResults
                       /\ consecutiveFailures' =
                             IF batchFailed = Len(batch)
                             THEN consecutiveFailures + batchFailed
                             ELSE 0
           /\ watchCalls' = watchCalls + Len(batch)
    /\ watchIndex' = watchIndex + batchSize
    /\ Emit(<<WatchProgress>>)
    /\ UNCHANGED <<inputVars, otherVars, filterVars, wikiVars, pc, httpStatus, resEnded, searchName, searchVars,
                   ytResult, ytError, transcriptVars, watchStopped,
                   geminiAnalyzed, synthVars, tailVars>>

\* youtube.js:308-317 and youtube.js:350-359: the circuit breaker trips
WatchStop ==
    /\ pc = "gemini_video"
    /\ geminiKey /\ ~watchStopped
    /\ watchIndex <= Len(videosToAnalyze(isPro, failedVideos))
    /\ consecutiveFailures >= maxConsecutiveFailures(isPro)
    /\ watchStopped' = TRUE
    /\ Emit(<<Event("gemini_video", "error")>>)
    /\ UNCHANGED <<inputVars, otherVars, filterVars, wikiVars, pc, httpStatus, resEnded, searchName, searchVars,
                   ytResult, ytError, transcriptVars, watchIndex, results,
                   consecutiveFailures, watchCalls, geminiAnalyzed, synthVars,
                   tailVars>>

\* youtube.js:382-383 and research.js:94-116: analyzeVideosWithGemini returns
AfterWatch ==
    /\ pc = "gemini_video"
    /\ geminiKey
    /\ watchStopped \/ watchIndex > Len(videosToAnalyze(isPro, failedVideos))
    /\ geminiAnalyzed' = results
    /\ LET next == ToSynthesis(transcripts \o results)
       IN  /\ Emit(<<Event("gemini_video", "done")>> \o next.evs)
           /\ pc' = next.pc
    /\ UNCHANGED <<inputVars, otherVars, filterVars, wikiVars, httpStatus, resEnded, searchName, searchVars,
                   ytResult, ytError, transcriptVars, watchIndex, results,
                   consecutiveFailures, watchCalls, watchStopped, synthVars,
                   tailVars>>

\* youtube.js:20-23, youtube.js:231 and research.js:99-102: without a key the
\* first analyzeVideoWithGemini call throws before its try block, the stage
\* rejects and deepResearch goes on with no analyzed video
WatchNoKey ==
    /\ pc = "gemini_video"
    /\ ~geminiKey
    /\ LET next == ToSynthesis(transcripts)
       IN  /\ Emit(<<Event("gemini_video", "active"), Event("gemini_video", "error")>>
                    \o next.evs)
           /\ pc' = next.pc
    /\ UNCHANGED <<inputVars, otherVars, filterVars, wikiVars, httpStatus, resEnded, searchName, searchVars,
                   ytResult, ytError, transcriptVars, watchVars, synthVars,
                   tailVars>>

\* ------------------------------------------------------ corpus synthesis
\* research.js:128: err.message includes '429', 'quota' or 'rate'
IsRateLimitShaped(msg) == msg \in {"429 Too Many Requests", "quota exceeded", "rate limit"}

\* how the deep-synthesis model call ends: with a text, with an empty text,
\* or with an error message
SynthesisOutcomes ==
    IF ~geminiKey
    THEN { [kind |-> "throws", msg |-> "API key not valid"] }
    ELSE IF bulk
    THEN { [kind |-> "text", msg |-> "deep"],
           [kind |-> "throws", msg |-> "429 Too Many Requests"] }
    ELSE { [kind |-> "text", msg |-> "deep"], [kind |-> "text", msg |-> ""],
           [kind |-> "throws", msg |-> "429 Too Many Requests"],
           [kind |-> "throws", msg |-> "fetch failed"] }

retryDelayConstant(n) == 5000

\* research.js:129: the wait before the next attempt, in milliseconds
retryDelay(n) == n * 5000

\* research.js:118-139: one attempt of the retry loop
SynthesisAttempt ==
    /\ pc = "analyze_videos"
    /\ attempt <= MaxSynthesisAttempts
    /\ synthesisCalls' = synthesisCalls + 1
    /\ \E o \in SynthesisOutcomes :
         /\ synthesisLog' = Append(synthesisLog, o)
         /\ IF o.kind = "text"
            THEN \* research.js:120-125: success ends the loop
                 LET next == ToMetadata(o.msg)
                 IN  /\ videoAnalysis' = o.msg
                     /\ Emit(<<Event("analyze_videos", "done")>> \o next.evs)
                     /\ pc' = next.pc
                     /\ UNCHANGED <<attempt, waits>>
            ELSE IF attempt < MaxSynthesisAttempts /\ IsRateLimitShaped(o.msg)
            THEN \* research.js:128-134: wait attempt * 5000 ms, then retry
                 /\ Emit(<<Event("analyze_videos", "active")>>)
                 /\ waits' = Append(waits, retryDelay(attempt))
                 /\ attempt' = attempt + 1
                 /\ UNCHANGED <<pc, videoAnalysis>>
            ELSE IF attempt = MaxSynthesisAttempts
            THEN \* research.js:135-137: the last attempt failed
                 LET next == ToMetadata(videoAnalysis)
                 IN  /\ Emit(<<Event("analyze_videos", "error")>> \o next.evs)
                     /\ pc' = next.pc
                     /\ UNCHANGED <<attempt, waits, videoAnalysis>>
            ELSE \* neither branch of the catch: the loop goes to the next attempt
                 /\ attempt' = attempt + 1
                 /\ UNCHANGED <<pc, events, res, waits, videoAnalysis>>
    /\ UNCHANGED <<inputVars, otherVars, filterVars, wikiVars, httpStatus, resEnded, searchName, searchVars,
                   ytResult, ytError, transcriptVars, watchVars, metadataCalls,
                   metadataLog, tailVars>>

\* how the metadata model call ends
MetadataOutcomes ==
    IF ~geminiKey
    THEN { [kind |-> "throws", msg |-> "API key not valid"] }
    ELSE IF bulk
    THEN { [kind |-> "text", msg |-> "meta"] }
    ELSE { [kind |-> "text", msg |-> "meta"], [kind |-> "text", msg |-> ""],
           [kind |-> "throws", msg |-> "fetch failed"] }

CatchMetadataErrorRethrows(err) == [thrown |-> err, evs |-> <<>>]

\* research.js:148-151: the catch around the metadata call
CatchMetadataError(err) ==
    [thrown |-> "", evs |-> <<Event("analyze_videos", "error")>>]

\* research.js:143-155: the metadata fallback
MetadataFallback ==
    /\ pc = "metadata"
    /\ metadataCalls' = metadataCalls + 1
    /\ \E o \in MetadataOutcomes :
         /\ metadataLog' = Append(metadataLog, o)
         /\ IF o.kind = "text"
            THEN /\ videoAnalysis' = o.msg
                 /\ Emit(<<Event("analyze_videos", "done"), Event("web_search", "active")>>)
                 /\ pc' = "web_search"
                 /\ UNCHANGED thrown
            ELSE LET caught == CatchMetadataError(o.msg)
                 IN  /\ UNCHANGED videoAnalysis
                     /\ thrown' = caught.thrown
                     /\ IF caught.thrown # ""
                        THEN /\ Emit(caught.evs)
                             /\ pc' = "returned"
                        ELSE /\ Emit(caught.evs \o <<Event("web_search", "active")>>)
                             /\ pc' = "web_search"
    /\ UNCHANGED <<inputVars, otherVars, filterVars, wikiVars, httpStatus, resEnded, searchName, searchVars,
                   ytResult, ytError, transcriptVars, watchVars, attempt,
                   synthesisCalls, waits, synthesisLog, web, wiki, report>>

\* ------------------------------------------------- web and encyclopedia
NullWeb == [profile |-> "", source |-> "null", sources |-> 0]

\* how the grounded call and the knowledge-only call end
WebOutcomes ==
    IF ~geminiKey
    THEN { [grounded |-> "throws", sources |-> 0, fallback |-> "throws"] }
    ELSE IF bulk
    THEN { [grounded |-> "text", sources |-> 2, fallback |-> "text"] }
    ELSE { [grounded |-> "text", sources |-> 2, fallback |-> "text"],
           [grounded |-> "throws", sources |-> 0, fallback |-> "text"],
           [grounded |-> "throws", sources |-> 0, fallback |-> "throws"] }

\* research.js:431-467
webResearch(o) ==
    IF o.grounded = "text"
    THEN [profile |-> "web", source |-> "gemini-google-search", sources |-> o.sources]
    ELSE IF o.fallback = "text"
    THEN [profile |-> "web", source |-> "gemini-knowledge", sources |-> 0]
    ELSE NullWeb

\* how Wikipedia answers: the first summary lookup, the site search, the
\* second summary lookup, the summary body and the full-article request
WikiScenarios ==
    IF bulk
    THEN { [first |-> "404", search |-> "miss", second |-> "404",
            summary |-> "ok", full |-> "long"] }
    ELSE { [first |-> "200", search |-> "miss", second |-> "404",
            summary |-> "ok", full |-> "long"],
           [first |-> "200", search |-> "miss", second |-> "404",
            summary |-> "disambiguation", full |-> "long"],
           [first |-> "404", search |-> "hit", second |-> "200",
            summary |-> "ok", full |-> "long"],
           [first |-> "404", search |-> "miss", second |-> "404",
            summary |-> "ok", full |-> "long"],
           [first |-> "neterr", search |-> "miss", second |-> "404",
            summary |-> "ok", full |-> "long"],
           [first |-> "200", search |-> "miss", second |-> "404",
            summary |-> "ok", full |-> "neterr"] }

\* research.js:486-531: the text fetchWikipedia returns ("" for null) and the
\* HTTP requests it made
fetchWikipedia(sc) ==
    IF sc.first = "neterr" THEN [value |-> "", requests |-> 1, searches |-> 0]
    ELSE
    LET searched == sc.first = "404"
        searchThrew == searched /\ sc.search \in {"neterr", "badjson"}
        second == searched /\ ~searchThrew /\ sc.search = "hit"
        secondThrew == second /\ sc.second = "neterr"
        status == IF second THEN sc.second ELSE sc.first
        n == 1 + (IF searched THEN 1 ELSE 0) + (IF second THEN 1 ELSE 0)
        s == IF searched THEN 1 ELSE 0
    IN  IF searchThrew \/ secondThrew THEN [value |-> "", requests |-> n, searches |-> s]
        ELSE IF status # "200" THEN [value |-> "", requests |-> n, searches |-> s]
        ELSE IF sc.summary # "ok" THEN [value |-> "", requests |-> n, searches |-> s]
        ELSE IF sc.full \in {"neterr", "badjson"}
             THEN [value |-> "", requests |-> n + 1, searches |-> s]
        ELSE [value |-> IF sc.full = "long" THEN "wiki+article" ELSE "wiki",
              requests |-> n + 1, searches |-> s]

combinedSummaryWikiNeedsWeb(analysis, wikiText, webValue) ==
    (IF analysis # "" THEN <<"VIDEO INTERVIEW ANALYSIS", analysis>> ELSE <<>>)
    \o (IF webValue.profile # "" /\ wikiText # ""
        THEN <<"WIKIPEDIA", wikiText>> ELSE <<>>)
    \o (IF webValue.profile # ""
        THEN <<"WEB INTELLIGENCE", webValue.profile>> ELSE <<>>)

\* research.js:186-195: the sections of the summary, each a heading and its text
combinedSummary(analysis, wikiText, webValue) ==
    (IF analysis # "" THEN <<"VIDEO INTERVIEW ANALYSIS", analysis>> ELSE <<>>)
    \o (IF wikiText # "" THEN <<"WIKIPEDIA", wikiText>> ELSE <<>>)
    \o (IF webValue.profile # ""
        THEN <<"WEB INTELLIGENCE", webValue.profile>> ELSE <<>>)

\* research.js:200-217
BuildReport(webValue, wikiText) ==
    [kind |-> "report",
     guestName |-> searchName,
     originalQuery |-> request.guestName,
     corrected |-> searchName # request.guestName,
     totalInterviewsFound |-> ytResult.totalInterviewsFound,
     transcriptsAnalyzed |-> Len(transcripts) + Len(geminiAnalyzed),
     interviews |-> ytResult.interviews,
     topicsSummary |-> combinedSummary(videoAnalysis, wikiText, webValue),
     videoAnalysis |-> videoAnalysis,
     webProfile |-> webValue]

\* research.js:161-217: both lookups settle, the report is compiled and
\* deepResearch returns
WebAndWikipedia ==
    /\ pc = "web_search"
    /\ \E o \in WebOutcomes, sc \in WikiScenarios :
         /\ web' = webResearch(o)
         /\ wiki' = fetchWikipedia(sc).value
         /\ report' = BuildReport(webResearch(o), fetchWikipedia(sc).value)
    /\ Emit(<<Event("web_search", "done"), Event("compile", "active"),
              Event("compile", "done"), Event("complete", "done")>>)
    /\ pc' = "returned"
    /\ UNCHANGED <<inputVars, otherVars, filterVars, wikiVars, httpStatus, resEnded, searchName, searchVars,
                   ytResult, ytError, transcriptVars, watchVars, synthVars, thrown>>

TerminalFramesNoElse(err) ==
    <<[type |-> "result", step |-> "", status |-> ""],
      [type |-> "error", step |-> "", status |-> err]>>

\* part_001:131-138: the frame written once deepResearch returned or threw
TerminalFrames(err) ==
    IF err = ""
    THEN <<[type |-> "result", step |-> "", status |-> ""]>>
    ELSE <<[type |-> "error", step |-> "", status |-> err]>>

\* part_001:133-140: the route writes the terminal frame and ends the
\* response; a direct caller just receives the value or the exception
Finish ==
    /\ pc = "returned"
    /\ IF entry = "route"
       THEN /\ res' = res \o TerminalFrames(thrown)
            /\ resEnded' = TRUE
       ELSE UNCHANGED <<res, resEnded>>
    /\ pc' = "done"
    /\ UNCHANGED <<inputVars, otherVars, filterVars, wikiVars, httpStatus, events, searchName, searchVars,
                   ytResult, ytError, transcriptVars, watchVars, synthVars,
                   tailVars>>

Next ==
    \/ RouteReject401
    \/ RouteReject400
    \/ RouteStart
    \/ NameCheck
    \/ SearchQuery
    \/ SearchExit
    \/ SearchNoKey
    \/ AfterSearch
    \/ FetchTranscript
    \/ AfterTranscripts
    \/ WatchVideo
    \/ WatchBatch
    \/ WatchStop
    \/ AfterWatch
    \/ WatchNoKey
    \/ SynthesisAttempt
    \/ MetadataFallback
    \/ WebAndWikipedia
    \/ Finish

Spec == Init /\ [][Next]_vars

TypeOK ==
    /\ pc \in {"request", "rejected", "name_check", "youtube", "youtube_return",
               "transcripts", "gemini_video", "analyze_videos", "metadata",
               "web_search", "returned", "done", "filter", "filtered",
               "wiki_summary", "wiki_search", "wiki_summary2", "wiki_full",
               "wiki_done", "gq_request", "gq_call", "gq_done",
               "tr_auto", "tr_lang", "tr_done",
               "gw_next", "gw_await", "gw_done", "display",
               "read", "read_done", "page"}
    /\ quotaErrors \in 0..Len(Queries(TRUE))

\* ------------------------------------------- the relevance filter alone
\* the words names and video texts are made of
NameTokens == { <<"J", "a", "n", "e">>, <<"D", "o", "e">>, <<"L", "i">>, <<"n", "a">> }

TextTokens == { <<"J", "A", "N", "E">>, <<"d", "o", "e">>, <<"l", "i">>,
                <<"x", "&", "a", "m", "p", ";">> }

\* the tokens of a sequence joined by single spaces
RECURSIVE Join(_)
Join(ts) ==
    IF ts = <<>> THEN <<>>
    ELSE IF Len(ts) = 1 THEN ts[1]
    ELSE ts[1] \o <<" ">> \o Join(Tail(ts))

\* every text of at most n tokens of the set
Texts(tokens, n) == { Join(ts) : ts \in UNION { [1..k -> tokens] : k \in 0..n } }

\* the names researchGuest may be given
FilterNames == Texts(NameTokens, MaxNameTokens) \ {<<>>}

\* the videos the search may have accumulated
Candidates ==
    [title : Texts(TextTokens, MaxTitleTokens),
     description : Texts(TextTokens, 1),
     channelTitle : Texts(TextTokens, 1)]

\* researchGuest is about to filter one accumulated video for one name
InitFilter ==
    /\ world = "small"
    /\ oracle = [failFrom |-> 1, failLen |-> 0]
    /\ entry = "direct"
    /\ userKeys = DirectUserKeys
    /\ env = [YOUTUBE_API_KEY |-> FALSE, GEMINI_API_KEY |-> FALSE]
    /\ pc = "filter"
    /\ InitRun
    /\ NoWiki
    /\ NoClient /\ NoName /\ NoTracks /\ NoQuestions /\ NoCalls /\ NoDisplay /\ NoStream /\ NoPage
    /\ searchName \in FilterNames
    /\ request = [authOk |-> TRUE, guestName |-> searchName]
    /\ candidate \in Candidates
    /\ kept = "unknown"

\* youtube.js:127-138: the callback of allVideos.filter runs for the video
ApplyFilter ==
    /\ pc = "filter"
    /\ kept = "unknown"
    /\ kept' = IF IsRelevant(searchName, candidate) THEN "yes" ELSE "no"
    /\ pc' = "filtered"
    /\ UNCHANGED <<inputVars, otherVars, wikiVars, candidate, httpStatus, events, res,
                   resEnded, searchName, searchVars, ytResult, ytError,
                   transcriptVars, watchVars, synthVars, tailVars>>

NextFilter == ApplyFilter

SpecFilter == InitFilter /\ [][NextFilter]_vars

\* -------------------------------------------------- fetchWikipedia alone
\* every way Wikipedia may answer the requests of one fetch: the status of
\* the first summary lookup, the outcome of the site search, the status of
\* the second summary lookup, the summary body and the full-article answer
AllWikiScenarios ==
    [first : {"200", "404", "500", "neterr"},
     search : {"hit", "miss", "badjson", "neterr"},
     second : {"200", "404", "neterr"},
     summary : {"ok", "noextract", "disambiguation", "badjson"},
     full : {"long", "short", "badjson", "neterr"}]

\* fetchWikipedia was called and is about to issue its first request
InitWiki ==
    /\ world = "small"
    /\ oracle = [failFrom |-> 1, failLen |-> 0]
    /\ entry = "direct"
    /\ userKeys = DirectUserKeys
    /\ env = [YOUTUBE_API_KEY |-> FALSE, GEMINI_API_KEY |-> FALSE]
    /\ pc = "wiki_summary"
    /\ InitRun
    /\ NoFilter
    /\ NoClient /\ NoName /\ NoTracks /\ NoQuestions /\ NoCalls /\ NoDisplay /\ NoStream /\ NoPage
    /\ searchName = GuestName
    /\ request = [authOk |-> TRUE, guestName |-> GuestName]
    /\ wikiScenario \in AllWikiScenarios
    /\ wikiRequests = <<>>
    /\ resp = ""

SearchFallbackAlways(status) == TRUE

\* research.js:494: the direct lookup did not find the page
SearchFallbackNeeded(status) == status = "404"

\* research.js:506-514: what follows a summary answer that needs no site
\* search: null for a status other than 200 or an unusable summary, else the
\* full-article request
AfterSummary(status) ==
    IF status # "200" THEN "wiki_done"
    ELSE IF wikiScenario.summary # "ok" THEN "wiki_done"
    ELSE "wiki_full"

\* research.js:491-506: the first summary lookup
WikiSummary ==
    /\ pc = "wiki_summary"
    /\ wikiRequests' = Append(wikiRequests, "summary")
    /\ IF wikiScenario.first = "neterr"
       THEN /\ pc' = "wiki_done"
            /\ UNCHANGED resp
       ELSE /\ resp' = wikiScenario.first
            /\ pc' = IF SearchFallbackNeeded(wikiScenario.first) THEN "wiki_search"
                     ELSE AfterSummary(wikiScenario.first)
    /\ UNCHANGED <<inputVars, otherVars, filterVars, wikiScenario, httpStatus, events, res,
                   resEnded, searchName, searchVars, ytResult, ytError,
                   transcriptVars, watchVars, synthVars, tailVars>>

\* research.js:495-506: the site search
WikiSearch ==
    /\ pc = "wiki_search"
    /\ wikiRequests' = Append(wikiRequests, "search")
    /\ pc' = IF wikiScenario.search \in {"neterr", "badjson"} THEN "wiki_done"
             ELSE IF wikiScenario.search = "hit" THEN "wiki_summary2"
             ELSE AfterSummary(resp)
    /\ UNCHANGED <<inputVars, otherVars, filterVars, wikiScenario, resp, httpStatus, events,
                   res, resEnded, searchName, searchVars, ytResult, ytError,
                   transcriptVars, watchVars, synthVars, tailVars>>

\* research.js:499-514: the summary lookup of the title the search found
WikiSecondSummary ==
    /\ pc = "wiki_summary2"
    /\ wikiRequests' = Append(wikiRequests, "summary")
    /\ IF wikiScenario.second = "neterr"
       THEN /\ pc' = "wiki_done"
            /\ UNCHANGED resp
       ELSE /\ resp' = wikiScenario.second
            /\ pc' = AfterSummary(wikiScenario.second)
    /\ UNCHANGED <<inputVars, otherVars, filterVars, wikiScenario, httpStatus, events, res,
                   resEnded, searchName, searchVars, ytResult, ytError,
                   transcriptVars, watchVars, synthVars, tailVars>>

\* research.js:512-530: the full-article request and the returned text
WikiFull ==
    /\ pc = "wiki_full"
    /\ wikiRequests' = Append(wikiRequests, "extracts")
    /\ wiki' = IF wikiScenario.full \in {"neterr", "badjson"} THEN ""
               ELSE IF wikiScenario.full = "long" THEN "wiki+article"
               ELSE "wiki"
    /\ pc' = "wiki_done"
    /\ UNCHANGED <<inputVars, otherVars, filterVars, wikiScenario, resp, httpStatus, events,
                   res, resEnded, searchName, searchVars, ytResult, ytError,
                   transcriptVars, watchVars, synthVars, web, thrown, report>>

NextWiki ==
    \/ WikiSummary
    \/ WikiSearch
    \/ WikiSecondSummary
    \/ WikiFull

SpecWiki == InitWiki /\ [][NextWiki]_vars

\* ------------------------------------------------- the name check alone
\* a text of n characters
Filler(n) == [i \in 1..n |-> "x"]

\* what the correction model may answer: a corrected name, with and without
\* white space or a line break around it, two lines, texts at and beyond the
\* length limit, the empty text
AllNameTexts ==
    { <<"J", "a", "n", "e", " ", "D", "o", "e">>,
      <<"J", "a", "n", "e", " ", "D", "o", "e", "\n">>,
      <<" ", "L", "i", "n", "a", " ">>,
      <<"J", "a", "n", "e", "\n", "D", "o", "e">>,
      Filler(MaxNameLength),
      Filler(MaxNameLength) \o <<" ">>,
      Filler(MaxNameLength + 1),
      <<>> }

\* deepResearch is called for some name and the correction call will end
\* in the way nameAnswer tells
InitName ==
    /\ world = "small"
    /\ oracle = [failFrom |-> 1, failLen |-> 0]
    /\ entry = "direct"
    /\ userKeys = DirectUserKeys
    /\ env = [YOUTUBE_API_KEY |-> FALSE, GEMINI_API_KEY |-> FALSE]
    /\ pc = "request"
    /\ searchName = <<>>
    /\ InitRun
    /\ NoFilter /\ NoWiki /\ NoClient /\ NoTracks /\ NoQuestions /\ NoCalls /\ NoDisplay /\ NoStream /\ NoPage
    /\ \E name \in FilterNames : request = [authOk |-> TRUE, guestName |-> name]
    /\ nameAnswer \in {[kind |-> "throws", text |-> <<>>]}
                      \cup [kind : {"text"}, text : AllNameTexts]

\* research.js:28-46
NameCheckAlone == NameCheckGiven(nameAnswer)

NextName ==
    \/ RouteStart
    \/ NameCheckAlone

SpecName == InitName /\ [][NextName]_vars

\* ------------------------------------------------ fetchTranscripts alone
\* what the transcript provider holds for one video: how the auto-detected
\* retrieval answers ("some" segments, an "empty" list, or it "throws"), the
\* language its segments carry ("": no lang field), the codes a retrieval by
\* language yields segments for, the codes it answers with an empty list
\* (it throws for every other code), and the length of the joined,
\* entity-decoded, whitespace-normalised text of the segments
AllTracks ==
    { [auto |-> "some", autoLang |-> "en", avail |-> {}, emptyFor |-> {},
       len |-> MinTextLength + 1],
      [auto |-> "some", autoLang |-> "", avail |-> {"en"}, emptyFor |-> {},
       len |-> MinTextLength],
      [auto |-> "some", autoLang |-> "", avail |-> {}, emptyFor |-> {},
       len |-> MaxTranscriptChars + 1],
      [auto |-> "empty", autoLang |-> "", avail |-> {"en"}, emptyFor |-> {},
       len |-> MinTextLength + 1],
      [auto |-> "throws", autoLang |-> "", avail |-> {}, emptyFor |-> {}, len |-> 0],
      [auto |-> "throws", autoLang |-> "", avail |-> {"en"}, emptyFor |-> {},
       len |-> MaxTranscriptChars],
      [auto |-> "throws", autoLang |-> "", avail |-> {"hi", "zh"}, emptyFor |-> {"en"},
       len |-> MinTextLength + 1],
      [auto |-> "throws", autoLang |-> "", avail |-> {"zh"}, emptyFor |-> {},
       len |-> MinTextLength],
      [auto |-> "throws", autoLang |-> "", avail |-> {}, emptyFor |-> {"ru"}, len |-> 0],
      [auto |-> "throws", autoLang |-> "", avail |-> {"zh"}, emptyFor |-> {"ru"},
       len |-> MaxTranscriptChars + 1] }

\* the videos argument: one video per provider entry, ids 1, 2, ...
InputVideos == [i \in 1..Len(tracks) |-> i]

\* youtube.js:211-215: the progress event, with the two counts of its message
TranscriptProgress(succeeded, done) ==
    [type |-> "progress", step |-> "transcripts", status |-> "active",
     succeeded |-> succeeded, scanned |-> done]

\* fetchTranscripts is called with one to MaxInputVideos videos and awaits
\* the auto-detected retrieval of the first
InitTranscripts ==
    /\ world = "small"
    /\ oracle = [failFrom |-> 1, failLen |-> 0]
    /\ entry = "direct"
    /\ userKeys = DirectUserKeys
    /\ env = [YOUTUBE_API_KEY |-> FALSE, GEMINI_API_KEY |-> FALSE]
    /\ request = [authOk |-> TRUE, guestName |-> GuestName]
    /\ pc = "tr_auto"
    /\ searchName = GuestName
    /\ InitRun
    /\ NoFilter /\ NoWiki /\ NoClient /\ NoName /\ NoQuestions /\ NoCalls /\ NoDisplay /\ NoStream /\ NoPage
    /\ tracks \in UNION { [1..n -> AllTracks] : n \in 1..MaxInputVideos }
    /\ langIndex = 0
    /\ segments = "null"
    /\ lang = "unknown"

\* youtube.js:182-224: the retrievals of a video are over with seg and lng
\* left in segments and lang: the video is stored in one of the two lists,
\* the progress event is emitted and the loop goes to the next video or ends
StoreVideo(seg, lng) ==
    LET video == InputVideos[scanned + 1]
        len == tracks[scanned + 1].len
        accepted == AcceptsTranscript([hasSegments |-> seg = "some"], len)
    IN  /\ segments' = seg
        /\ lang' = lng
        /\ transcripts' = IF accepted
                          THEN Append(transcripts,
                                 [videoId |-> video, lang |-> lng,
                                  chars |-> StoredChars(len), source |-> "transcript"])
                          ELSE transcripts
        /\ failedVideos' = PushFailed(failedVideos, video, accepted)
        /\ scanned' = scanned + 1
        /\ events' = Append(events, TranscriptProgress(Len(transcripts'), scanned + 1))
        /\ pc' = IF scanned + 1 < Len(InputVideos) THEN "tr_auto" ELSE "tr_done"

\* youtube.js:160-169: the auto-detected retrieval of the next video settles
TranscriptAuto ==
    /\ pc = "tr_auto"
    /\ scanned < Len(InputVideos)
    /\ lastAttempts' = <<"auto">>
    /\ LET t == tracks[scanned + 1]
       IN  IF t.auto = "throws"
           THEN /\ segments' = "null"
                /\ lang' = "unknown"
                /\ langIndex' = 1
                /\ pc' = "tr_lang"
                /\ UNCHANGED <<scanned, transcripts, failedVideos, events>>
           ELSE /\ StoreVideo(t.auto,
                              IF t.auto = "some"
                              THEN (IF t.autoLang = "" THEN "auto" ELSE t.autoLang)
                              ELSE "unknown")
                /\ UNCHANGED langIndex
    /\ UNCHANGED <<inputVars, pageVars, streamVars, displayVars, callVars, clientVars, nameVars, questionVars, tracks, filterVars,
                   wikiVars, httpStatus, res, resEnded, searchName, searchVars,
                   ytResult, ytError, watchVars, synthVars, tailVars>>

\* youtube.js:171-179: the retrieval for the code langs[langIndex] settles
TranscriptLang ==
    /\ pc = "tr_lang"
    /\ lastAttempts' = Append(lastAttempts, langs[langIndex])
    /\ LET t == tracks[scanned + 1]
           tryLang == langs[langIndex]
           seg == IF tryLang \in t.avail THEN "some"
                  ELSE IF tryLang \in t.emptyFor THEN "empty"
                  ELSE segments
       IN  IF seg = "some"
           THEN /\ StoreVideo("some", tryLang)
                /\ UNCHANGED langIndex
           ELSE IF langIndex < Len(langs)
           THEN /\ segments' = seg
                /\ langIndex' = langIndex + 1
                /\ UNCHANGED <<pc, lang, scanned, transcripts, failedVideos, events>>
           ELSE /\ StoreVideo(seg, lang)
                /\ UNCHANGED langIndex
    /\ UNCHANGED <<inputVars, pageVars, streamVars, displayVars, callVars, clientVars, nameVars, questionVars, tracks, filterVars,
                   wikiVars, httpStatus, res, resEnded, searchName, searchVars,
                   ytResult, ytError, watchVars, synthVars, tailVars>>

NextTranscripts ==
    \/ TranscriptAuto
    \/ TranscriptLang

SpecTranscripts == InitTranscripts /\ [][NextTranscripts]_vars

\* ----------------------------------------------- a client that disconnects
\* the transcript fetches and model calls issued so far (each counter only
\* grows during a run)
CallsIssued == scanned + watchCalls + synthesisCalls + metadataCalls

\* part_001:114-141: the route registers no handler for the close of the
\* request or of the response and passes deepResearch no signal, so a client
\* that goes away changes nothing the run reads
ClientDisconnect ==
    /\ entry = "route" /\ httpStatus = 200
    /\ ~resEnded
    /\ ~disconnected
    /\ disconnected' = TRUE
    /\ callsAtDisconnect' = CallsIssued
    /\ UNCHANGED <<inputVars, pageVars, streamVars, displayVars, callVars, nameVars, trackVars, questionVars, filterVars, wikiVars,
                   pc, httpStatus, events, res, resEnded, searchName, searchVars,
                   ytResult, ytError, transcriptVars, watchVars, synthVars, tailVars>>

\* a signed-in user, with a stored key of their own or without one, asks for
\* a subject with many videos, none of which has a transcript
InitClient ==
    /\ world = "bulk"
    /\ oracle = [failFrom |-> 1, failLen |-> 0]
    /\ entry = "route"
    /\ request = [authOk |-> TRUE, guestName |-> GuestName]
    /\ \E stored \in BOOLEAN :
         /\ userKeys = getUserKeys(stored)
         /\ env = [YOUTUBE_API_KEY |-> ~stored, GEMINI_API_KEY |-> ~stored]
    /\ InitLocals

\* the steps of such a run: no request is rejected, no key is missing, the
\* run is in Free mode and no model-watch call fails
NextClient ==
    \/ ClientDisconnect
    \/ RouteStart
    \/ NameCheck
    \/ SearchQuery
    \/ SearchExit
    \/ AfterSearch
    \/ FetchTranscript
    \/ AfterTranscripts
    \/ WatchVideo
    \/ AfterWatch
    \/ SynthesisAttempt
    \/ MetadataFallback
    \/ WebAndWikipedia
    \/ Finish

SpecClient == InitClient /\ [][NextClient]_vars

\* ------------------------------------------------------ generateQuestions
\* research.js:536
MODELS == <<"gemini-2.5-flash", "gemini-2.0-flash", "gemini-2.0-flash-lite">>

\* the texts the question model answers with, as sequences of pieces: a
\* code fence (written ~~~ here, three backquotes in the source), white
\* space, a JSON document ("{}") or other prose
QuestionTexts ==
    { <<"{}">>,
      <<"\n", "{}", " ">>,
      <<"~~~json", "\n", "{}", "\n", "~~~">>,
      <<"~~~", "{}", "~~~", "\n">>,
      <<"~~~json", "\n", "oops", "\n", "~~~">>,
      <<"oops", "{}">>,
      <<"~~~">>,
      <<>> }

\* the messages of the errors generateContent rejects with ("": an error
\* without a message)
QuestionErrors == {"429 Too Many Requests", "quota exceeded", "fetch failed", ""}

\* research.js:642-646: the fences are cut off the trimmed text
StripFences(text) ==
    LET t == trim(text)
        opened == IF t # <<>> /\ Head(t) \in {"~~~json", "~~~"} THEN Tail(t) ELSE t
        closed == IF opened # <<>> /\ opened[Len(opened)] = "~~~"
                  THEN SubSeq(opened, 1, Len(opened) - 1)
                  ELSE opened
    IN  trim(closed)

\* research.js:648: JSON.parse accepts exactly one JSON document
JsonParses(cleaned) == cleaned = <<"{}">>

\* the message of the SyntaxError JSON.parse throws
ParseErrorMessage(cleaned) ==
    IF cleaned = <<>> THEN "Unexpected end of JSON input" ELSE "Unexpected token"

\* research.js:657: err.message includes '429' or 'quota'
IsQuotaShaped(msg) == msg \in {"429 Too Many Requests", "quota exceeded"}

NextTryNoSecondAttempt(m, a) == [modelIndex |-> m + 1, attempt |-> 0]

\* research.js:623-624: the loop head of the two nested loops, after a failed try
NextTry(m, a) ==
    IF a + 1 < MaxQuestionAttempts
    THEN [modelIndex |-> m, attempt |-> a + 1]
    ELSE [modelIndex |-> m + 1, attempt |-> 0]

QuestionsFailureThrows(err) ==
    [value |-> [kind |-> "none"],
     thrown |-> IF err \in {"null", ""} THEN "Unknown error" ELSE err]

\* research.js:665-668: every try failed
QuestionsFailure(err) ==
    [value |-> [kind |-> "value", success |-> FALSE,
                error |-> <<"All models failed. Last error: ",
                            IF err \in {"null", ""} THEN "Unknown error" ELSE err,
                            ". Gemini API quota may be exhausted.">>],
     thrown |-> ""]

\* part_001:163-166: the route answers with the value, or with 500 and the
\* message of the exception
QuestionsStatus(exception) == IF exception = "" THEN 200 ELSE 500

\* a signed-in or anonymous caller posts to /api/generate-questions
InitQuestions ==
    /\ world = "small"
    /\ oracle = [failFrom |-> 1, failLen |-> 0]
    /\ entry = "route"
    /\ request \in [authOk : BOOLEAN, guestName : {GuestName}]
    /\ \E stored \in BOOLEAN, default \in BOOLEAN :
         /\ userKeys = getUserKeys(stored)
         /\ env = [YOUTUBE_API_KEY |-> FALSE, GEMINI_API_KEY |-> default]
    /\ pc = "gq_request"
    /\ searchName = <<>>
    /\ InitRun
    /\ NoFilter /\ NoWiki /\ NoClient /\ NoName /\ NoTracks /\ NoQuestions /\ NoCalls /\ NoDisplay /\ NoStream /\ NoPage

\* auth.js:55-67, authMiddleware
QuestionsReject401 ==
    /\ pc = "gq_request"
    /\ ~request.authOk
    /\ httpStatus' = 401
    /\ pc' = "rejected"
    /\ UNCHANGED <<inputVars, otherVars, filterVars, wikiVars, events, res, resEnded,
                   searchName, searchVars, ytResult, ytError, transcriptVars,
                   watchVars, synthVars, tailVars>>

\* part_001:145-162 and research.js:540-636: the route calls
\* generateQuestions, which throws without a key and otherwise issues the
\* first call
QuestionsStart ==
    /\ pc = "gq_request"
    /\ request.authOk
    /\ IF ~geminiKey
       THEN /\ thrown' = "Gemini API Key is missing. Please configure it in Settings."
            /\ httpStatus' = QuestionsStatus(thrown')
            /\ pc' = "gq_done"
            /\ UNCHANGED <<attempt, modelIndex, lastError>>
       ELSE /\ modelIndex' = 1
            /\ attempt' = 0
            /\ lastError' = "null"
            /\ pc' = "gq_call"
            /\ UNCHANGED <<thrown, httpStatus>>
    /\ UNCHANGED <<inputVars, pageVars, streamVars, displayVars, callVars, clientVars, nameVars, trackVars, questionCalls,
                   questionsResult, filterVars, wikiVars, events, res, resEnded,
                   searchName, searchVars, ytResult, ytError, transcriptVars,
                   watchVars, synthesisCalls, metadataCalls, waits, videoAnalysis,
                   synthesisLog, metadataLog, web, wiki, report>>

\* research.js:636-668 and part_001:163: one generateContent call settles;
\* the function returns the parsed value, or goes on to the next try after
\* the cooldown of a quota-shaped error, or returns the failure value
QuestionsCall ==
    /\ pc = "gq_call"
    /\ \E o \in [kind : {"text"}, text : QuestionTexts, message : {""}]
               \cup [kind : {"throws"}, text : {<<>>}, message : QuestionErrors] :
         LET cleaned == StripFences(o.text)
             ok == o.kind = "text" /\ JsonParses(cleaned)
             err == IF o.kind = "throws" THEN o.message ELSE ParseErrorMessage(cleaned)
             next == NextTry(modelIndex, attempt)
             failure == QuestionsFailure(err)
         IN  /\ questionCalls' = Append(questionCalls,
                    [model |-> MODELS[modelIndex], attempt |-> attempt, ok |-> ok,
                     message |-> IF ok THEN "" ELSE err])
             /\ IF ok
                THEN /\ questionsResult' = [kind |-> "value", success |-> TRUE,
                                            data |-> cleaned]
                     /\ httpStatus' = QuestionsStatus("")
                     /\ pc' = "gq_done"
                     /\ UNCHANGED <<modelIndex, attempt, lastError, waits, thrown>>
                ELSE /\ lastError' = err
                     /\ waits' = IF IsQuotaShaped(err)
                                 THEN Append(waits, QuotaCooldown)
                                 ELSE waits
                     /\ IF next.modelIndex <= Len(MODELS)
                        THEN /\ modelIndex' = next.modelIndex
                             /\ attempt' = next.attempt
                             /\ UNCHANGED <<pc, questionsResult, httpStatus, thrown>>
                        ELSE /\ questionsResult' = failure.value
                             /\ thrown' = failure.thrown
                             /\ httpStatus' = QuestionsStatus(failure.thrown)
                             /\ pc' = "gq_done"
                             /\ UNCHANGED <<modelIndex, attempt>>
    /\ UNCHANGED <<inputVars, pageVars, streamVars, displayVars, callVars, clientVars, nameVars, trackVars, filterVars, wikiVars,
                   events, res, resEnded, searchName, searchVars, ytResult, ytError,
                   transcriptVars, watchVars, synthesisCalls, metadataCalls,
                   videoAnalysis, synthesisLog, metadataLog, web, wiki, report>>

NextQuestions ==
    \/ QuestionsReject401
    \/ QuestionsStart
    \/ QuestionsCall

SpecQuestions == InitQuestions /\ [][NextQuestions]_vars

\* ------------------------------------------------------- the whole server
\* the research pipeline, the encyclopedia lookup step by step and the
\* question generation side by side
InitAll == Init \/ InitWiki \/ InitQuestions

NextAll == Next \/ NextWiki \/ NextQuestions

SpecAll == InitAll /\ [][NextAll]_vars

\* -------------------------------------------------- the search loop alone
\* a subject with CrowdVideos videos: a query is answered with up to
\* MaxRepeats ids the run has seen already followed by ids it has not, none,
\* one, or as many as make the response one short of full or full
\* (maxResults items), as far as there are any; or the query fails on the
\* quota
RECURSIVE Fresh(_, _)
Fresh(from, n) == IF n = 0 THEN <<>> ELSE <<from>> \o Fresh(from + 1, n - 1)

CrowdResponses ==
    UNION { { [kind |-> "items", msg |-> "",
               items |-> SubSeq(allVideos, 1, d)
                           \o Fresh(Len(allVideos) + 1,
                                    Min(n, CrowdVideos - Len(allVideos)))] :
                 n \in {0, 1, maxResults(isPro) - d - 1, maxResults(isPro) - d} } :
            d \in 0..Min(MaxRepeats, Len(allVideos)) }
    \cup { [kind |-> "throws", msg |-> "quotaExceeded", items |-> <<>>] }

\* researchGuest is called, in Free or in Pro mode, with a key
InitSearch ==
    /\ world = "bulk"
    /\ oracle = [failFrom |-> 1, failLen |-> 0]
    /\ entry = "direct"
    /\ userKeys \in [youtubeApiKey : {TRUE}, geminiApiKey : {TRUE},
                     hasCustomKey : BOOLEAN]
    /\ env = [YOUTUBE_API_KEY |-> FALSE, GEMINI_API_KEY |-> FALSE]
    /\ request = [authOk |-> TRUE, guestName |-> GuestName]
    /\ pc = "youtube"
    /\ searchName = GuestName
    /\ InitRun
    /\ NoFilter /\ NoWiki /\ NoClient /\ NoName /\ NoTracks /\ NoQuestions /\ NoCalls /\ NoDisplay /\ NoStream /\ NoPage

SearchCrowd == \E r \in CrowdResponses : SearchQueryGiven(r)

NextSearch ==
    \/ SearchCrowd
    \/ SearchExit

SpecSearch == InitSearch /\ [][NextSearch]_vars

\* ------------------------------- analyzeVideosWithGemini, call by call
\* how the model treats the generateContent request of one video: within
\* the 30 seconds it answers with a text longer than 100 characters ("ok"),
\* with a shorter one ("short") or with an error ("error"); it answers
\* after the 30 seconds, with a long text ("late"); or it never answers
\* ("stuck")
Behaviours == {"ok", "short", "error", "late", "stuck"}

\* what the request answers with, when it answers
AnswerOf(b) == IF b = "late" THEN "ok" ELSE b

TimerNeverFires(b) == FALSE

\* youtube.js:255-261: the timer of the race fires before the request answers
TimerFiresFirst(b) == b \in {"late", "stuck"}

\* the videos argument: one video per request, ids 1, 2, ...
WatchInput == [i \in 1..Len(watchBehaviour) |-> i]

\* the requests of the call or batch the loop is at
CurrentBatch ==
    IF isPro
    THEN watchIndex .. Min(watchIndex + batchSize - 1,
                           Len(videosToAnalyze(isPro, WatchInput)))
    ELSE {watchIndex}

\* the generateContent requests that were issued and have not answered
InFlight == {i \in 1..Len(call) : call[i] \in {"pending", "timedout"}}

\* analyzeVideosWithGemini is called, in Free or in Pro mode, with zero to
\* MaxWatchVideos videos and a key
InitWatch ==
    /\ world = "small"
    /\ oracle = [failFrom |-> 1, failLen |-> 0]
    /\ entry = "direct"
    /\ userKeys \in [youtubeApiKey : {TRUE}, geminiApiKey : {TRUE},
                     hasCustomKey : BOOLEAN]
    /\ env = [YOUTUBE_API_KEY |-> FALSE, GEMINI_API_KEY |-> FALSE]
    /\ request = [authOk |-> TRUE, guestName |-> GuestName]
    /\ pc = "gw_next"
    /\ searchName = GuestName
    /\ InitRun
    /\ NoFilter /\ NoWiki /\ NoClient /\ NoName /\ NoTracks /\ NoQuestions /\ NoDisplay /\ NoStream /\ NoPage
    /\ watchBehaviour \in UNION { [1..n -> Behaviours] : n \in 0..MaxWatchVideos }
    /\ call = [i \in 1..Len(watchBehaviour) |-> "idle"]
    /\ settled = [i \in 1..Len(watchBehaviour) |-> "none"]

\* youtube.js:307-327 and youtube.js:349-368: the head of an iteration that
\* passes the breaker emits the progress event and issues the request of the
\* video, or the requests of the batch, and awaits
WatchIssue ==
    /\ pc = "gw_next"
    /\ watchIndex <= Len(videosToAnalyze(isPro, WatchInput))
    /\ consecutiveFailures < maxConsecutiveFailures(isPro)
    /\ call' = [i \in 1..Len(call) |->
                  IF i \in CurrentBatch THEN "pending" ELSE call[i]]
    /\ watchCalls' = watchCalls + Cardinality(CurrentBatch)
    /\ Emit(<<WatchProgress>>)
    /\ pc' = "gw_await"
    /\ UNCHANGED <<inputVars, pageVars, streamVars, displayVars, clientVars, nameVars, trackVars, questionVars,
                   watchBehaviour, settled, filterVars, wikiVars, httpStatus,
                   resEnded, searchName, searchVars, ytResult, ytError,
                   transcriptVars, watchIndex, results, consecutiveFailures,
                   watchStopped, geminiAnalyzed, synthVars, tailVars>>

\* youtube.js:308-317 and youtube.js:350-359: the breaker trips, the loop is
\* left and the results are returned
WatchBreaker ==
    /\ pc = "gw_next"
    /\ watchIndex <= Len(videosToAnalyze(isPro, WatchInput))
    /\ consecutiveFailures >= maxConsecutiveFailures(isPro)
    /\ watchStopped' = TRUE
    /\ Emit(<<Event("gemini_video", "error")>>)
    /\ geminiAnalyzed' = results
    /\ pc' = "gw_done"
    /\ UNCHANGED <<inputVars, otherVars, filterVars, wikiVars, httpStatus,
                   resEnded, searchName, searchVars, ytResult, ytError,
                   transcriptVars, watchIndex, results, consecutiveFailures,
                   watchCalls, synthVars, tailVars>>

\* youtube.js:307, youtube.js:349 and youtube.js:382-383: no video to analyze
WatchNothing ==
    /\ pc = "gw_next"
    /\ watchIndex > Len(videosToAnalyze(isPro, WatchInput))
    /\ geminiAnalyzed' = results
    /\ pc' = "gw_done"
    /\ UNCHANGED <<inputVars, otherVars, filterVars, wikiVars, httpStatus,
                   events, res, resEnded, searchName, searchVars, ytResult,
                   ytError, transcriptVars, watchIndex, results,
                   consecutiveFailures, watchCalls, watchStopped, synthVars,
                   tailVars>>

CallVarsOnly ==
    UNCHANGED <<inputVars, pageVars, streamVars, displayVars, clientVars, nameVars, trackVars,
                questionVars, watchBehaviour, filterVars, wikiVars, pc, httpStatus, events,
                res, resEnded, searchName, searchVars, ytResult, ytError,
                transcriptVars, watchVars, synthVars, tailVars>>

\* youtube.js:258-274 and youtube.js:275-283: the request answers before the
\* timer fires and analyzeVideoWithGemini settles with a record or with null
CallAnswers ==
    /\ \E i \in 1..Len(call) :
         /\ call[i] = "pending"
         /\ watchBehaviour[i] # "stuck"
         /\ ~TimerFiresFirst(watchBehaviour[i])
         /\ call' = [call EXCEPT ![i] = "returned"]
         /\ settled' = [settled EXCEPT ![i] = AnswerOf(watchBehaviour[i])]
    /\ CallVarsOnly

\* youtube.js:255-261 and youtube.js:275-283: the timer fires first, the race
\* rejects and analyzeVideoWithGemini settles with null; nothing aborts the
\* request, which stays with the model
CallTimesOut ==
    /\ \E i \in 1..Len(call) :
         /\ call[i] = "pending"
         /\ TimerFiresFirst(watchBehaviour[i])
         /\ call' = [call EXCEPT ![i] = "timedout"]
         /\ settled' = [settled EXCEPT ![i] = "timeout"]
    /\ CallVarsOnly

\* youtube.js:258-261: a request that lost the race answers; the race has
\* settled and the answer is dropped
CallAnswersLate ==
    /\ \E i \in 1..Len(call) :
         /\ call[i] = "timedout"
         /\ watchBehaviour[i] = "late"
         /\ call' = [call EXCEPT ![i] = "returned"]
         /\ UNCHANGED settled
    /\ CallVarsOnly

\* youtube.js:368-378 and youtube.js:327-345: every analyzeVideoWithGemini
\* promise of the call or batch has settled; the loop takes the results in
\* input order, counts the failures and goes to the next iteration, after
\* the delay, or returns
WatchResume ==
    /\ pc = "gw_await"
    /\ \A i \in CurrentBatch : settled[i] # "none"
    /\ LET vta == videosToAnalyze(isPro, WatchInput)
           first == watchIndex
           last == Min(IF isPro THEN watchIndex + batchSize - 1 ELSE watchIndex,
                       Len(vta))
           batch == SubSeq(vta, first, last)
           outcome == [k \in 1..Len(batch) |-> settled[first + k - 1]]
           batchResults == BatchResults(batch, outcome, 1)
           batchFailed == Len(batch) - Len(batchResults)
       IN  /\ results' = results \o batchResults
           /\ consecutiveFailures' =
                 IF isPro
                 THEN (IF batchFailed = Len(batch)
                       THEN consecutiveFailures + batchFailed ELSE 0)
                 ELSE (IF batchResults # <<>> THEN 0
                       ELSE consecutiveFailures + 1)
           /\ watchIndex' = last + 1
           /\ pc' = IF last < Len(vta) THEN "gw_next" ELSE "gw_done"
           /\ geminiAnalyzed' = IF last < Len(vta) THEN geminiAnalyzed
                                ELSE results'
    /\ UNCHANGED <<inputVars, otherVars, filterVars, wikiVars, httpStatus,
                   events, res, resEnded, searchName, searchVars, ytResult,
                   ytError, transcriptVars, watchCalls, watchStopped,
                   synthVars, tailVars>>

NextWatch ==
    \/ WatchIssue
    \/ WatchBreaker
    \/ WatchNothing
    \/ CallAnswers
    \/ CallTimesOut
    \/ CallAnswersLate
    \/ WatchResume

SpecWatch == InitWatch /\ [][NextWatch]_vars

\* timers fire, requests that answer do answer, and a runnable continuation
\* of the loop runs
FairWatch == InitWatch /\ [][NextWatch]_vars /\ WF_vars(NextWatch)

\* ---------------------------------------------- the progress display alone
\* the stages and statuses of the events the server sends (part_001:127-129
\* and the onProgress calls of research.js and youtube.js); the message of
\* an event is modelled by its position in the stream, so that no two
\* events carry the same message
DisplaySteps == {"start", "name_check", "analyze_videos", "complete"}

DisplayStatuses == {"active", "done", "error"}

\* part_000:261: the class of a new row
NewClassName(status) ==
    IF status = "active" THEN "progress-step active" ELSE "progress-step done"

\* part_000:263-265: the icon of a new row
NewIcon(status) ==
    IF status = "error" THEN "step-error"
    ELSE IF status = "done" THEN "step-check"
    ELSE "step-spinner"

\* part_000:249-257: the message of an existing row is replaced; its class
\* and icon change for the statuses done and error and for no other
UpdatedRow(el, status, message) ==
    IF status = "done"
    THEN [className |-> "progress-step done", icon |-> "step-check",
          message |-> message]
    ELSE IF status = "error"
    THEN [className |-> "progress-step", icon |-> "step-error",
          message |-> message]
    ELSE [className |-> el.className, icon |-> el.icon, message |-> message]

\* part_000:206-232: a research run has started and the progress list is empty
InitDisplay ==
    /\ world = "small"
    /\ oracle = [failFrom |-> 1, failLen |-> 0]
    /\ entry = "route"
    /\ userKeys = getUserKeys(FALSE)
    /\ env = [YOUTUBE_API_KEY |-> TRUE, GEMINI_API_KEY |-> TRUE]
    /\ request = [authOk |-> TRUE, guestName |-> GuestName]
    /\ pc = "display"
    /\ searchName = <<>>
    /\ InitRun
    /\ NoFilter /\ NoWiki /\ NoClient /\ NoName /\ NoTracks /\ NoQuestions /\ NoCalls /\ NoStream /\ NoPage
    /\ stepsEl = <<>>
    /\ stepElements = <<>>
    /\ titleEl = "Researching"
    /\ fed = <<>>

\* part_000:234-272: addOrUpdateStep(data)
addOrUpdateStep(data) ==
    /\ fed' = Append(fed, data)
    /\ IF data.step = "start" \/ data.step = "complete"
       THEN /\ titleEl' = IF data.step = "complete" THEN "Research complete!"
                          ELSE titleEl
            /\ UNCHANGED <<stepsEl, stepElements>>
       ELSE IF data.step \in DOMAIN stepElements
       THEN /\ stepsEl' = [stepsEl EXCEPT ![stepElements[data.step]] =
                              UpdatedRow(@, data.status, data.message)]
            /\ UNCHANGED <<stepElements, titleEl>>
       ELSE /\ stepsEl' = Append(stepsEl,
                             [className |-> NewClassName(data.status),
                              icon |-> NewIcon(data.status),
                              message |-> data.message])
            /\ stepElements' =
                  [s \in DOMAIN stepElements \cup {data.step} |->
                     IF s = data.step THEN Len(stepsEl) + 1 ELSE stepElements[s]]
            /\ UNCHANGED titleEl

\* part_000:307-308: a progress event of the stream is handed to addOrUpdateStep
DisplayEvent ==
    /\ pc = "display"
    /\ Len(fed) < MaxEvents
    /\ \E step \in DisplaySteps, status \in DisplayStatuses :
         addOrUpdateStep([step |-> step, status |-> status,
                          message |-> Len(fed) + 1])
    /\ UNCHANGED <<inputVars, pageVars, streamVars, callVars, clientVars, nameVars, trackVars,
                   questionVars, filterVars, wikiVars, pc, httpStatus, events,
                   res, resEnded, searchName, searchVars, ytResult, ytError,
                   transcriptVars, watchVars, synthVars, tailVars>>

NextDisplay == DisplayEvent

SpecDisplay == InitDisplay /\ [][NextDisplay]_vars

\* ---------------------------------------------------- the event stream alone
\* texts are sequences of characters; LF is the line feed and BS the backslash
LF == "\n"
BS == "\\"

\* the events a run may send: progress events with a plain message or with
\* a message of two line feeds, and the result; n tells the events of one
\* stream apart
StreamEvents(n) ==
    { [type |-> "progress", message |-> <<"m">>, n |-> n],
      [type |-> "progress", message |-> <<LF, LF>>, n |-> n],
      [type |-> "result", message |-> <<>>, n |-> n] }

\* JSON.stringify on a string: a line feed becomes backslash, n
EscapeNothing(text) == text

RECURSIVE Escape(_)
Escape(text) ==
    IF text = <<>> THEN <<>>
    ELSE (IF Head(text) = LF THEN <<BS, "n">> ELSE <<Head(text)>>)
           \o Escape(Tail(text))

\* JSON.stringify on a small number
Digits == <<"1", "2", "3", "4", "5", "6", "7", "8", "9">>

\* part_001:128 and part_001:134, JSON.stringify of the event: one line
stringify(e) ==
    <<"{", IF e.type = "progress" THEN "p" ELSE "r", Digits[e.n]>>
       \o Escape(e.message) \o <<"}">>

\* part_001:128 and part_001:134: the frame res.write is given
Frame(json) == <<"d", "a", "t", "a", ":", " ">> \o json \o <<LF, LF>>

\* what a stream holds in the place of an event: the frame of the event, or
\* a frame whose JSON text was cut short on the way
Frames(n) ==
    { [event |-> e, text |-> Frame(stringify(e))] : e \in StreamEvents(n) }
    \cup { [event |-> [type |-> "none", message |-> <<>>, n |-> n],
             text |-> Frame(<<"{", "p", Digits[n]>>)] }

\* the event texts JSON.parse accepts, and no other text
Parseable(text) == \E n \in 1..MaxFrames : \E e \in StreamEvents(n) : stringify(e) = text

\* part_000:306, JSON.parse: the event a text was made from
parse(text) ==
    CHOOSE e \in UNION {StreamEvents(n) : n \in 1..MaxFrames} : stringify(e) = text

\* part_000:298, buffer.split('\n\n'): the texts between the separators,
\* found from the left
RECURSIVE SplitFrames(_, _)
SplitFrames(text, cur) ==
    IF text = <<>> THEN <<cur>>
    ELSE IF Len(text) >= 2 /\ text[1] = LF /\ text[2] = LF
    THEN <<cur>> \o SplitFrames(SubSeq(text, 3, Len(text)), <<>>)
    ELSE SplitFrames(Tail(text), Append(cur, Head(text)))

\* part_000:302, part.split('\n')
RECURSIVE SplitLines(_, _)
SplitLines(text, cur) ==
    IF text = <<>> THEN <<cur>>
    ELSE IF Head(text) = LF
    THEN <<cur>> \o SplitLines(Tail(text), <<>>)
    ELSE SplitLines(Tail(text), Append(cur, Head(text)))

\* part_000:304, line.startsWith('data: ')
StartsWithData(line) ==
    Len(line) >= 6 /\ SubSeq(line, 1, 6) = <<"d", "a", "t", "a", ":", " ">>

\* part_000:303-327: the lines of one part; a line that is data and parses
\* is dispatched, a line that does not parse is logged and passed over
RECURSIVE HandleLines(_)
HandleLines(lines) ==
    IF lines = <<>> THEN <<>>
    ELSE LET line == Head(lines)
             text == SubSeq(line, 7, Len(line))
         IN  (IF StartsWithData(line) /\ Parseable(text)
              THEN <<parse(text)>> ELSE <<>>)
               \o HandleLines(Tail(lines))

\* part_000:301-329: the loop over the parts
RECURSIVE HandleParts(_)
HandleParts(parts) ==
    IF parts = <<>> THEN <<>>
    ELSE HandleLines(SplitLines(Head(parts), <<>>)) \o HandleParts(Tail(parts))

\* the frames of a stream, one after the other
RECURSIVE Concat(_)
Concat(frames) ==
    IF frames = <<>> THEN <<>> ELSE Head(frames).text \o Concat(Tail(frames))

\* the streams a run may write: one to MaxFrames frames
Streams ==
    UNION { { f \in [1..n -> UNION {Frames(k) : k \in 1..n}] :
                \A k \in 1..n : f[k] \in Frames(k) } : n \in 1..MaxFrames }

\* part_001:127-140: the characters the server wrote to the response
Written == Concat(stream)

\* part_000:278-289: the response has arrived, the buffer is empty and the
\* first read is awaited
InitStream ==
    /\ world = "small"
    /\ oracle = [failFrom |-> 1, failLen |-> 0]
    /\ entry = "route"
    /\ userKeys = getUserKeys(FALSE)
    /\ env = [YOUTUBE_API_KEY |-> TRUE, GEMINI_API_KEY |-> TRUE]
    /\ request = [authOk |-> TRUE, guestName |-> GuestName]
    /\ pc = "read"
    /\ searchName = <<>>
    /\ InitRun
    /\ NoFilter /\ NoWiki /\ NoClient /\ NoName /\ NoTracks /\ NoQuestions /\ NoCalls /\ NoDisplay /\ NoPage
    /\ stream \in Streams
    /\ delivered = 0
    /\ buffer = <<>>
    /\ handled = <<>>

ReadFrame ==
    UNCHANGED <<inputVars, pageVars, callVars, displayVars, clientVars, nameVars,
                trackVars, questionVars, stream, filterVars, wikiVars,
                httpStatus, events, res, resEnded, searchName, searchVars,
                ytResult, ytError, transcriptVars, watchVars, synthVars,
                tailVars>>

\* part_000:292-329: reader.read() resolves with the next characters of the
\* stream, however many the network delivers at once; they are added to the
\* buffer, the complete parts are handled and the last part is kept
ReadChunk ==
    /\ pc = "read"
    /\ \E k \in 1..(Len(Written) - delivered) :
         LET value == SubSeq(Written, delivered + 1, delivered + k)
             parts == SplitFrames(buffer \o value, <<>>)
         IN  /\ delivered' = delivered + k
             /\ buffer' = parts[Len(parts)]
             /\ handled' = handled \o HandleParts(SubSeq(parts, 1, Len(parts) - 1))
    /\ UNCHANGED pc
    /\ ReadFrame

\* part_000:292-293: reader.read() resolves with done and the loop is left
ReadDone ==
    /\ pc = "read"
    /\ delivered = Len(Written)
    /\ pc' = "read_done"
    /\ UNCHANGED <<delivered, buffer, handled>>
    /\ ReadFrame

NextStream ==
    \/ ReadChunk
    \/ ReadDone

SpecStream == InitStream /\ [][NextStream]_vars

\* ------------------------------------------------------------------ the page
\* the researchGuest calls that have sent their request and have not
\* reached the end of their finally block
InFlightRuns ==
    {r \in 1..Len(invocations) : invocations[r] \in {"fetch", "read", "read_end"}}

LockedNever == FALSE

\* part_000:205: if (isResearching) return
Locked == isResearching

\* the page is loaded and signed in, and nothing was researched yet
InitPage ==
    /\ world = "small"
    /\ oracle = [failFrom |-> 1, failLen |-> 0]
    /\ entry = "route"
    /\ userKeys = getUserKeys(FALSE)
    /\ env = [YOUTUBE_API_KEY |-> TRUE, GEMINI_API_KEY |-> TRUE]
    /\ request = [authOk |-> TRUE, guestName |-> GuestName]
    /\ pc = "page"
    /\ searchName = <<>>
    /\ InitRun
    /\ NoFilter /\ NoWiki /\ NoClient /\ NoName /\ NoTracks /\ NoQuestions /\ NoCalls /\ NoDisplay /\ NoStream
    /\ NoPage

PageFrame ==
    UNCHANGED <<inputVars, callVars, streamVars, clientVars, nameVars,
                trackVars, questionVars, filterVars, wikiVars, pc, httpStatus,
                events, res, resEnded, searchName, searchVars, ytResult,
                ytError, transcriptVars, watchVars, synthVars, tailVars>>

\* part_000:336-341, the finally block: the lock is released
Unlock(r) ==
    /\ isResearching' = FALSE
    /\ invocations' = [invocations EXCEPT ![r] = "over"]

\* part_000:203-285, part_000:710 and part_000:735: the button or the Enter
\* key calls researchGuest, which returns at once while the lock is set or
\* the name field is empty, and otherwise sets the lock, hides the results,
\* shows the emptied progress panel and sends the request
Trigger ==
    /\ pc = "page"
    /\ Len(triggers) < MaxTriggers
    /\ \E name \in {<<>>, GuestName} :
         IF Locked \/ name = <<>>
         THEN /\ triggers' = Append(triggers,
                                IF Locked THEN "locked" ELSE "no name")
              /\ UNCHANGED <<isResearching, researchData, progressEl,
                             researchResults, timers, invocations, displayVars>>
         ELSE /\ triggers' = Append(triggers, "sent")
              /\ isResearching' = TRUE
              /\ researchResults' = [researchResults EXCEPT !.display = "none"]
              /\ progressEl' = "block"
              /\ stepsEl' = <<>>
              /\ stepElements' = <<>>
              /\ titleEl' = "Researching"
              /\ fed' = <<>>
              /\ invocations' = Append(invocations, "fetch")
              /\ UNCHANGED <<researchData, timers>>
    /\ PageFrame

\* part_000:278-289: fetch resolves and the first read is awaited
FetchResolves ==
    /\ \E r \in 1..Len(invocations) :
         /\ invocations[r] = "fetch"
         /\ invocations' = [invocations EXCEPT ![r] = "read"]
    /\ UNCHANGED <<isResearching, researchData, progressEl, researchResults,
                   timers, triggers, displayVars>>
    /\ PageFrame

\* part_000:332-341: fetch or a read rejects; the catch hides the progress
\* panel and the finally block runs
RunFails ==
    /\ \E r \in InFlightRuns :
         /\ Unlock(r)
         /\ progressEl' = "none"
    /\ UNCHANGED <<researchData, researchResults, timers, triggers, displayVars>>
    /\ PageFrame

\* part_000:292-308: a read resolves with a progress event
ReadProgress ==
    /\ \E r \in 1..Len(invocations) :
         /\ invocations[r] = "read"
         /\ Len(fed) < MaxEvents
         /\ \E status \in {"active", "done"} :
              addOrUpdateStep([step |-> "name_check", status |-> status,
                               message |-> r])
    /\ UNCHANGED <<isResearching, researchData, progressEl, researchResults,
                   timers, invocations, triggers>>
    /\ PageFrame

\* part_000:309-315: a read resolves with the result event; researchData is
\* set and the display timer is started
ReadResult ==
    /\ \E r \in 1..Len(invocations) :
         /\ invocations[r] = "read"
         /\ researchData' = r
         /\ timers' = timers \cup {r}
         /\ invocations' = [invocations EXCEPT ![r] = "read_end"]
    /\ UNCHANGED <<isResearching, progressEl, researchResults, triggers,
                   displayVars>>
    /\ PageFrame

\* part_000:316-324: a read resolves with the error event, which is shown
\* as a toast
ReadError ==
    /\ \E r \in 1..Len(invocations) :
         /\ invocations[r] = "read"
         /\ invocations' = [invocations EXCEPT ![r] = "read_end"]
    /\ UNCHANGED <<isResearching, researchData, progressEl, researchResults,
                   timers, triggers, displayVars>>
    /\ PageFrame

\* part_000:292-293 and part_000:336-341: a read resolves with done, after
\* the last event or before any; the loop is left and the finally block runs
StreamEnds ==
    /\ \E r \in 1..Len(invocations) :
         /\ invocations[r] \in {"read", "read_end"}
         /\ Unlock(r)
    /\ UNCHANGED <<researchData, progressEl, researchResults, timers, triggers,
                   displayVars>>
    /\ PageFrame

\* part_000:312-315: the timer a result event started fires; the progress
\* panel is hidden and displayResearch shows what researchData holds now
\* (part_000:409)
TimerFires ==
    /\ \E r \in timers :
         /\ timers' = timers \ {r}
         /\ progressEl' = "none"
         /\ researchResults' = [display |-> "block", data |-> researchData]
    /\ UNCHANGED <<isResearching, researchData, invocations, triggers,
                   displayVars>>
    /\ PageFrame

NextPage ==
    \/ Trigger
    \/ FetchResolves
    \/ RunFails
    \/ ReadProgress
    \/ ReadResult
    \/ ReadError
    \/ StreamEnds
    \/ TimerFires

SpecPage == InitPage /\ [][NextPage]_vars

\* ------------------------------------------------------------ properties
StageOrder ==
    <<"start", "name_check", "youtube", "transcripts", "gemini_video",
      "analyze_videos", "web_search", "compile", "complete">>

Rank(step) == CHOOSE i \in 1..Len(StageOrder) : StageOrder[i] = step

HasEvent(step) == \E i \in 1..Len(events) : events[i].step = step

Ids(records) == {records[i].videoId : i \in 1..Len(records)}

IsTerminal(frame) == frame.type \in {"result", "error"}

Returned == pc \in {"returned", "done"}

\* C1: in every report, transcriptsAnalyzed is the number of videos with an
\* accepted transcript plus the number of Gemini-analyzed videos, no video
\* id is in both groups, and transcriptsAnalyzed <= totalInterviewsFound.
C1_AnalyzedCount ==
    report.kind = "report" =>
        /\ report.transcriptsAnalyzed =
              Cardinality(Ids(transcripts)) + Cardinality(Ids(geminiAnalyzed))
        /\ Ids(transcripts) \cap Ids(geminiAnalyzed) = {}
        /\ Ids(transcripts) \cup Ids(geminiAnalyzed) \subseteq Range(report.interviews)
        /\ report.transcriptsAnalyzed <= report.totalInterviewsFound

\* a finished run with an accepted transcript, a watched video and a video
\* whose analysis failed
C1_Witness ==
    /\ pc = "done"
    /\ report.kind = "report"
    /\ Len(transcripts) >= 1
    /\ Len(geminiAnalyzed) >= 1
    /\ Len(failedVideos) > Len(geminiAnalyzed)

\* C2: a request with a non-empty subject whose search did not throw ends,
\* whatever the name correction, the transcript fetches, the model-watch
\* calls, the synthesis, the metadata fallback, the web dossier and the
\* encyclopedia lookup did, with a result frame carrying a report and never
\* with an error frame.
C2_StageFailuresNeverAbort ==
    (entry = "route" /\ httpStatus = 200 /\ resEnded /\ ytError = "") =>
        /\ res[Len(res)].type = "result"
        /\ \A i \in 1..Len(res) : res[i].type # "error"
        /\ thrown = ""
        /\ report.kind = "report"
        /\ report.videoAnalysis = videoAnalysis
        /\ report.webProfile = web

\* a finished stream of a run in which the model-watch call, all three
\* synthesis attempts, the metadata fallback, the web dossier and the
\* encyclopedia lookup failed
C2_Witness ==
    /\ entry = "route" /\ resEnded /\ ytError = ""
    /\ Len(transcripts) >= 1
    /\ Len(failedVideos) >= 1 /\ geminiAnalyzed = <<>>
    /\ synthesisCalls = MaxSynthesisAttempts
    /\ metadataCalls = 1
    /\ report.videoAnalysis = ""
    /\ report.webProfile = NullWeb
    /\ wiki = ""

\* C3: when every media-search query failed with a quota error and no video
\* was collected, the QUOTA_EXHAUSTED error leaves deepResearch (and so
\* becomes the terminal error frame) before any transcript event and without
\* a report.
C3_QuotaExhaustedIsFatal ==
    [][ ( /\ pc = "youtube_return"
          /\ ytError = "QUOTA_EXHAUSTED"
          /\ queriesIssued > 0 /\ quotaErrors = queriesIssued
          /\ allVideos = <<>> )
        => ( /\ thrown' = "QUOTA_EXHAUSTED"
             /\ pc' = "returned"
             /\ report' = NoReport
             /\ \A i \in 1..Len(events') : events'[i].step # "transcripts" ) ]_vars

\* C4: researchGuest raises QUOTA_EXHAUSTED only when every query it issued
\* failed with a quota-shaped error and no video was collected; otherwise it
\* returns a result.
C4_QuotaOnlyWhenAllFailed ==
    (pc = "youtube_return" /\ youtubeKey) =>
        ( ytError = "QUOTA_EXHAUSTED"
            <=> (queriesIssued > 0 /\ quotaErrors = queriesIssued /\ allVideos = <<>>) )

\* C5: the progress events come in the fixed stage order: the first event
\* is start, no event of an earlier stage follows an event of a later stage
\* (each event's stage is at or after the stage of the event before it), and
\* the last event of a run that returned is complete.
C5_StageOrder ==
    /\ \A i \in 1..(Len(events) - 1) :
         Rank(events[i].step) <= Rank(events[i + 1].step)
    /\ events # <<>> => events[1].step = "start"
    /\ Returned => events[Len(events)].step = "complete"

\* a finished run that emitted events of all nine stages
C5_Witness ==
    /\ pc = "done"
    /\ \A k \in 1..Len(StageOrder) : HasEvent(StageOrder[k])

\* C6, as claimed: every run emits an event of each of the stages name_check,
\* youtube, transcripts, gemini_video, analyze_videos, web_search and compile
\* before complete.
C6_NoStageSkipped ==
    HasEvent("complete") =>
        \A s \in {"name_check", "youtube", "transcripts", "gemini_video",
                  "analyze_videos", "web_search", "compile"} : HasEvent(s)

\* C6, amended: every run that returns emitted events of name_check, youtube,
\* web_search and compile before complete; it emitted transcripts and
\* analyze_videos events exactly if the search found a video, and
\* gemini_video events exactly if some video has no accepted transcript.
C6_StagesEmitted ==
    HasEvent("complete") =>
        /\ \A s \in {"name_check", "youtube", "web_search", "compile"} : HasEvent(s)
        /\ HasEvent("transcripts") <=> Len(ytResult.interviews) > 0
        /\ HasEvent("analyze_videos") <=> Len(ytResult.interviews) > 0
        /\ HasEvent("gemini_video") <=> Len(failedVideos) > 0

\* a finished run whose search succeeded and found no video
C6_Witness ==
    /\ pc = "done"
    /\ ytError = ""
    /\ ytResult.interviews = <<>>
    /\ HasEvent("complete")
    /\ ~HasEvent("transcripts")

\* C7: the result frame is written after the complete event, when
\* deepResearch has returned its report and no stage is running; an ended
\* stream carries exactly one terminal frame, and it is the last frame.
C7_ReportAfterAllStages ==
    /\ \A i \in 1..Len(res) :
         IsTerminal(res[i]) => i = Len(res) /\ resEnded /\ pc = "done"
    /\ resEnded => Len(res) > 0 /\ IsTerminal(res[Len(res)])
    /\ \A i \in 1..Len(res) :
         res[i].type = "result" =>
            /\ i > 1 /\ res[i - 1] = Event("complete", "done")
            /\ report.kind = "report"
    /\ report.kind = "report" => Returned /\ HasEvent("complete")

\* an ended stream whose run went through the transcript and model-watch stages
C7_Witness ==
    /\ resEnded
    /\ res[Len(res)].type = "result"
    /\ Len(transcripts) >= 1 /\ Len(geminiAnalyzed) >= 1

\* C8: every video id occurs at most once in the accumulated set, in the
\* search result and in the report's interviews list.
C8_NoDuplicateIds ==
    /\ NoDup(allVideos)
    /\ NoDup(ytResult.interviews)
    /\ report.kind = "report" => NoDup(report.interviews)

\* the search received an item whose id it had already seen
C8_Witness ==
    /\ sawDuplicate
    /\ queriesIssued >= 2
    /\ Len(allVideos) >= 2

\* C9: Free mode issues at most 15 model-watch calls however many videos it
\* is given; Pro mode is capped only by the number of videos given and calls
\* the model for each of them unless the circuit breaker stops it.
C9_WatchCap ==
    /\ ~isPro => watchCalls <= MAX_GEMINI_VIDEOS_FREE
    /\ watchCalls <= Len(failedVideos)
    /\ ( /\ isPro /\ geminiKey /\ ~watchStopped
         /\ pc \in {"analyze_videos", "metadata", "web_search", "returned", "done"} )
       => watchCalls = Len(failedVideos)

\* a finished Free run that was given more than 15 videos and made 15 calls
C9_Witness ==
    /\ pc = "done"
    /\ ~isPro
    /\ Len(failedVideos) > MAX_GEMINI_VIDEOS_FREE
    /\ watchCalls = MAX_GEMINI_VIDEOS_FREE

\* C10: in Free mode the quota-error count never exceeds 3 and no query is
\* issued once it is 3; in Pro mode the loop ends only after all 13 queries.
C10_QuotaAbort ==
    [][ /\ ~isPro => quotaErrors' <= 3
        /\ (~isPro /\ pc = "youtube" /\ quotaErrors >= 3)
             => queriesIssued' = queriesIssued
        /\ (isPro /\ pc = "youtube" /\ pc' = "youtube_return" /\ youtubeKey)
             => queriesIssued' = 13 ]_vars

\* a Free search cut short by its third quota error
C10_Witness ==
    /\ pc = "youtube_return"
    /\ ~isPro
    /\ quotaErrors = 3
    /\ queriesIssued < Len(Queries(FALSE))

HasStatus(step, status) == \E i \in 1..Len(events) : events[i] = Event(step, status)

\* the model-watch stage of a run that has the Gemini key is over
WatchReturned ==
    pc \in {"analyze_videos", "metadata", "web_search", "returned", "done"}

\* Free mode: the call for the i-th video to analyze was issued and gave no record
FreeCallFailed(i) ==
    /\ i <= watchCalls
    /\ videosToAnalyze(FALSE, failedVideos)[i] \notin Ids(results)

ThreeFailedFrom(k) ==
    FreeCallFailed(k) /\ FreeCallFailed(k + 1) /\ FreeCallFailed(k + 2)

\* C11, as claimed: in Free mode, for every position k, if the calls for the
\* videos k, k+1 and k+2 failed consecutively, no call is issued for video
\* k+3 or a later one and the stage emits an error-status gemini_video event.
C11_FreeBreakerEveryPosition ==
    (~isPro /\ geminiKey) =>
        \A k \in 1..watchCalls :
            ThreeFailedFrom(k) =>
                /\ watchCalls <= k + 2
                /\ WatchReturned => HasStatus("gemini_video", "error")

\* C11, amended: in Free mode, if the calls for the videos k, k+1 and k+2
\* failed consecutively, no call is issued for video k+3 or a later one, and
\* if a video k+3 is among the videos to analyze the stage emits an
\* error-status gemini_video event.
C11_FreeBreaker ==
    (~isPro /\ geminiKey) =>
        \A k \in 1..watchCalls :
            ThreeFailedFrom(k) =>
                /\ watchCalls <= k + 2
                /\ (k + 3 <= Len(videosToAnalyze(FALSE, failedVideos)) /\ WatchReturned)
                     => HasStatus("gemini_video", "error")

\* a finished Free run whose calls succeeded at first, then failed three
\* times in a row with videos left to analyze
C11_Witness ==
    /\ pc = "done"
    /\ ~isPro /\ geminiKey
    /\ Len(results) >= 2
    /\ \E k \in 3..Len(failedVideos) :
         /\ ThreeFailedFrom(k)
         /\ k + 3 <= Len(videosToAnalyze(FALSE, failedVideos))
         /\ watchCalls = k + 2
    /\ HasStatus("gemini_video", "error")

\* Pro mode: the call for the i-th video to analyze was issued and gave no record
ProCallFailed(i) ==
    /\ i <= watchCalls
    /\ videosToAnalyze(TRUE, failedVideos)[i] \notin Ids(results)

FiveFailedFrom(k) == \A j \in k..(k + 4) : ProCallFailed(j)

\* the position of the last video of the batch that holds the i-th video
BatchEnd(i) == ((i - 1) \div batchSize + 1) * batchSize

\* C12: in Pro mode, once 5 consecutive calls (in video order, across batch
\* boundaries) have failed, no batch after the one holding the fifth failure
\* is issued, and if videos were left an error-status gemini_video event is
\* emitted.
C12_ProBreaker ==
    (isPro /\ geminiKey) =>
        \A k \in 1..watchCalls :
            FiveFailedFrom(k) =>
                /\ watchCalls <= BatchEnd(k + 4)
                /\ (BatchEnd(k + 4) < Len(failedVideos) /\ WatchReturned)
                     => HasStatus("gemini_video", "error")

\* the synthesis was attempted and every attempt so far raised a
\* rate-limit-shaped error
AlwaysRateLimited ==
    /\ synthesisLog # <<>>
    /\ \A i \in 1..Len(synthesisLog) :
         /\ synthesisLog[i].kind = "throws"
         /\ synthesisLog[i].msg \in {"429 Too Many Requests", "quota exceeded", "rate limit"}

AfterAnalysis == pc \in {"web_search", "returned", "done"}

\* C13: if every deep-synthesis call raises a rate-limit-shaped error, there
\* are exactly 3 attempts, with a wait of 5 s after the first and 10 s after
\* the second and none after the third, and then the metadata fallback runs
\* exactly once.
C13_RateLimitedSynthesis ==
    AlwaysRateLimited =>
        /\ synthesisCalls = Len(synthesisLog) /\ synthesisCalls <= 3
        /\ waits = [i \in 1..Min(synthesisCalls, 2) |-> i * 5000]
        /\ pc = "analyze_videos" => synthesisCalls < 3 /\ metadataCalls = 0
        /\ pc = "metadata" => synthesisCalls = 3 /\ metadataCalls = 0
        /\ AfterAnalysis => synthesisCalls = 3 /\ metadataCalls = 1

\* a finished run whose three synthesis attempts were all rate limited
C13_Witness ==
    /\ pc = "done"
    /\ AlwaysRateLimited
    /\ synthesisCalls = 3
    /\ waits = <<5000, 10000>>
    /\ metadataCalls = 1

\* the text the last call of a log returned, "" if there was no call or it threw
LastText(log) ==
    IF log # <<>> /\ log[Len(log)].kind = "text" THEN log[Len(log)].msg ELSE ""

\* C14: the report's videoAnalysis is non-empty exactly if the deep synthesis
\* or the metadata fallback returned a non-empty text (and is that text); the
\* fallback runs exactly when the synthesis produced no text and at least one
\* video was found; videoAnalysis is empty when both fail.
C14_VideoAnalysis ==
    report.kind = "report" =>
        /\ report.videoAnalysis # "" <=>
              (LastText(synthesisLog) # "" \/ LastText(metadataLog) # "")
        /\ report.videoAnalysis =
              IF LastText(synthesisLog) # "" THEN LastText(synthesisLog)
              ELSE LastText(metadataLog)
        /\ metadataCalls \in {0, 1} /\ metadataCalls = Len(metadataLog)
        /\ metadataCalls = 1 <=>
              (LastText(synthesisLog) = "" /\ report.totalInterviewsFound > 0)

\* a finished run whose synthesis failed three times and whose fallback
\* returned a text
C14_Witness ==
    /\ pc = "done" /\ report.kind = "report"
    /\ Len(synthesisLog) = 3 /\ LastText(synthesisLog) = ""
    /\ LastText(metadataLog) # ""
    /\ report.videoAnalysis = LastText(metadataLog)

\* C15: a synthesis attempt that fails with an error that is not
\* rate-limit-shaped is the last attempt of the run.
C15_NoRetryOnOtherErrors ==
    \A i \in 1..Len(synthesisLog) :
        (synthesisLog[i].kind = "throws" /\ ~IsRateLimitShaped(synthesisLog[i].msg))
            => i = Len(synthesisLog)

\* the text contains the pattern when the case of letters is ignored
ContainsIgnoreCase(s, p) ==
    \E i \in 0..(Len(s) - Len(p)) :
        \A j \in 1..Len(p) : LowerChar(s[i + j]) = LowerChar(p[j])

\* C16: a candidate whose (entity-decoded) title contains the exact full
\* subject name, case-insensitively, is kept by the relevance filter.
C16_FullNameInTitleKept ==
    (pc = "filtered" /\ ContainsIgnoreCase(decodeHtml(candidate.title), searchName))
        => kept = "yes"

\* a two-token name found in a title written in another case
C16_Witness ==
    /\ pc = "filtered"
    /\ Len(split(searchName)) = 2
    /\ \A i \in 1..2 : Len(split(searchName)[i]) > 2
    /\ ContainsIgnoreCase(decodeHtml(candidate.title), searchName)
    /\ ~Includes(candidate.title, searchName)
    /\ kept = "yes"

\* the text holds the token, whatever the case of the letters
HoldsToken(snip, token) ==
    \/ ContainsIgnoreCase(decodeHtml(snip.title), token)
    \/ ContainsIgnoreCase(decodeHtml(snip.description), token)
    \/ ContainsIgnoreCase(decodeHtml(snip.channelTitle), token)

\* C17: a candidate that holds neither the first nor the last token of the
\* subject name in its title, description or channel name is dropped, also
\* when every token of the name has two characters or fewer.
C17_UnrelatedDropped ==
    LET tokens == split(searchName)
    IN  ( /\ pc = "filtered"
          /\ ~HoldsToken(candidate, tokens[1])
          /\ ~HoldsToken(candidate, tokens[Len(tokens)]) )
        => kept = "no"

\* how many requests of a kind fetchWikipedia issued
CountRequests(kind) ==
    Cardinality({i \in 1..Len(wikiRequests) : wikiRequests[i] = kind})

\* C18: a direct summary lookup that returns 404 is followed by exactly one
\* site-search request and at most one further summary lookup; no other
\* lookup triggers a search; a whole fetch issues at most 4 HTTP requests and
\* returns what the one-step description of fetchWikipedia returns.
C18_WikipediaRequests ==
    /\ Len(wikiRequests) <= 4
    /\ CountRequests("search") <= 1
    /\ CountRequests("summary") <= 2
    /\ CountRequests("extracts") <= 1
    /\ pc = "wiki_done" =>
         /\ CountRequests("search") = (IF wikiScenario.first = "404" THEN 1 ELSE 0)
         /\ CountRequests("summary") = 2 =>
               (wikiScenario.first = "404" /\ wikiScenario.search = "hit")
         /\ Len(wikiRequests) = fetchWikipedia(wikiScenario).requests
         /\ wiki = fetchWikipedia(wikiScenario).value

\* a fetch whose direct lookup returned 404, whose search found a title and
\* that went on to the full article: four requests
C18_Witness ==
    /\ pc = "wiki_done"
    /\ wikiScenario.first = "404"
    /\ wikiRequests = <<"summary", "search", "summary", "extracts">>
    /\ wiki = "wiki+article"

\* C19: a run that lacks a credential (no per-user key and no process-wide
\* default) ends with the configuration error: the error leaves deepResearch,
\* there is no report and the later stages do not run.
C19_MissingKeyIsFatal ==
    ((~youtubeKey \/ ~geminiKey) /\ pc \in {"returned", "done"}) =>
        /\ thrown # ""
        /\ report = NoReport
        /\ ~HasEvent("web_search") /\ ~HasEvent("complete")

\* C20: a request without a valid bearer credential, or with an absent or
\* empty guestName, is rejected with 401 or 400 before the run starts: no
\* progress event, no frame and no external call.
C20_RejectedBeforeStart ==
    (entry = "route" /\ (~request.authOk \/ request.guestName = <<>>)) =>
        /\ pc \in {"request", "rejected"}
        /\ events = <<>> /\ res = <<>> /\ ~resEnded
        /\ queriesIssued = 0 /\ watchCalls = 0
        /\ synthesisCalls = 0 /\ metadataCalls = 0
        /\ pc = "rejected" =>
             httpStatus = (IF ~request.authOk THEN 401 ELSE 400)
        /\ pc = "request" => httpStatus = 0

\* an authenticated request with an empty guestName was answered with 400
C20_Witness ==
    /\ pc = "rejected"
    /\ request.authOk /\ request.guestName = <<>>
    /\ httpStatus = 400

\* C21: after the caller disconnected during a research run, the run issues
\* no new external call: the transcript fetches and model calls issued never
\* exceed those issued at the disconnect by more than the calls that were in
\* flight then (at most one batch of batchSize).
C21_NoCallAfterDisconnect ==
    disconnected => CallsIssued <= callsAtDisconnect + batchSize

\* C22: generateQuestions calls the models in the fixed order
\* gemini-2.5-flash, gemini-2.0-flash, gemini-2.0-flash-lite with at most 2
\* attempts per model (at most 6 calls); every call before the last one
\* failed, so a later model is tried only after both attempts of the earlier
\* one failed, and once a call yields text that parses the function has
\* returned success and no further call follows.
C22_ModelOrder ==
    LET order == <<"gemini-2.5-flash", "gemini-2.5-flash",
                   "gemini-2.0-flash", "gemini-2.0-flash",
                   "gemini-2.0-flash-lite", "gemini-2.0-flash-lite">>
        n == Len(questionCalls)
    IN  /\ n <= 6
        /\ \A i \in 1..n :
             /\ questionCalls[i].model = order[i]
             /\ questionCalls[i].attempt = (i - 1) % 2
        /\ \A i \in 1..(n - 1) : ~questionCalls[i].ok
        /\ (n > 0 /\ questionCalls[n].ok) =>
             /\ pc = "gq_done"
             /\ questionsResult.kind = "value" /\ questionsResult.success
        /\ (questionsResult.kind = "value" /\ questionsResult.success) =>
             (n > 0 /\ questionCalls[n].ok)

\* the second model succeeded at its second attempt, after an unparsable
\* answer and after errors
C22_Witness ==
    /\ pc = "gq_done"
    /\ Len(questionCalls) = 4
    /\ questionCalls[4].ok
    /\ questionCalls[3].message = "Unexpected token"
    /\ questionCalls[1].message = "quota exceeded"
    /\ questionsResult.success

\* C23: when all six tries failed, by an error or by text that does not
\* parse, generateQuestions returns {success: false, error} instead of
\* throwing, the error text holds the message of the last error ("Unknown
\* error" if that error has no message), and the route answers with this
\* value with status 200, not 500.
C23_StructuredFailure ==
    ( /\ pc = "gq_done"
      /\ Len(questionCalls) = 6
      /\ \A i \in 1..6 : ~questionCalls[i].ok )
    => /\ questionsResult.kind = "value"
       /\ ~questionsResult.success
       /\ thrown = ""
       /\ httpStatus = 200
       /\ LET m == questionCalls[6].message
          IN  (IF m = "" THEN "Unknown error" ELSE m) \in Range(questionsResult.error)

\* six failed tries, the first by a quota error and the last by text that
\* is empty once its fences are cut off
C23_Witness ==
    /\ pc = "gq_done"
    /\ Len(questionCalls) = 6
    /\ questionCalls[1].message = "quota exceeded"
    /\ questionCalls[6].message = "Unexpected end of JSON input"
    /\ ~questionsResult.success
    /\ Len(waits) >= 1

\* the video was submitted to the model-watch stage: it is among the failed
\* videos a call was issued for
Submitted(v) == \E k \in 1..watchCalls : failedVideos[k] = v

\* C24: every video of the search result is covered: once the run has
\* returned (with the Gemini key present and without the circuit breaker
\* stopping the model-watch stage), every found video has an accepted
\* transcript or was submitted to Gemini video analysis, in Free and in Pro
\* mode alike.
C24_AllVideosCovered ==
    (Returned /\ thrown = "" /\ geminiKey /\ ~watchStopped) =>
        \A i \in 1..Len(ytResult.interviews) :
            \/ ytResult.interviews[i] \in Ids(transcripts)
            \/ Submitted(ytResult.interviews[i])

\* C25: a user who has saved a key of their own runs research under the Pro
\* policy: when the route has called deepResearch with the keys getApiKeys
\* returned for such a user, isPro is true.
C25_StoredKeyRunsPro ==
    ( /\ entry = "route" /\ httpStatus = 200
      /\ (userKeys.youtubeApiKey \/ userKeys.geminiApiKey) )
    => isPro

\* the encyclopedia has no article for the subject: the last summary lookup
\* answered 404
ArticleMissing ==
    /\ wikiScenario.first = "404"
    /\ \/ wikiScenario.search = "miss"
       \/ wikiScenario.search = "hit" /\ wikiScenario.second = "404"

\* the encyclopedia has only a disambiguation page for the subject
DisambiguationOnly ==
    /\ wikiScenario.summary = "disambiguation"
    /\ \/ wikiScenario.first = "200"
       \/ wikiScenario.first = "404" /\ wikiScenario.search = "hit"
            /\ wikiScenario.second = "200"

\* C26: the web-dossier lookup and the encyclopedia lookup are independent:
\* the report carries the web dossier whenever the web lookup gave one and
\* the encyclopedia text whenever that lookup gave one, whatever the other
\* lookup did, and the stage ends with status done and without an error;
\* fetchWikipedia ends with an absent value and no exception when the
\* article is missing or is only a disambiguation page.
C26_IndependentLookups ==
    /\ report.kind = "report" =>
         /\ report.webProfile = web
         /\ web.profile # "" => web.profile \in Range(report.topicsSummary)
         /\ wiki # "" => wiki \in Range(report.topicsSummary)
         /\ thrown = ""
         /\ HasStatus("web_search", "done") /\ ~HasStatus("web_search", "error")
    /\ (pc = "wiki_done" /\ (ArticleMissing \/ DisambiguationOnly)) =>
         wiki = "" /\ thrown = ""

\* a report that carries the encyclopedia text although the web lookup failed
C26_Witness ==
    /\ pc = "done"
    /\ report.kind = "report"
    /\ web = NullWeb
    /\ wiki # ""
    /\ "WIKIPEDIA" \in Range(report.topicsSummary)
    /\ "WEB INTELLIGENCE" \notin Range(report.topicsSummary)

\* the name check of a run with a recorded answer is over
NameChecked == nameAnswer.kind # "none" /\ pc = "youtube"

\* C27, as claimed: if the correction call throws or returns text that is
\* longer than 60 characters or contains a line break, the later stages use
\* the original subject string and the name_check stage ends with status done.
C27_AdvisoryAsClaimed ==
    ( /\ NameChecked
      /\ \/ nameAnswer.kind = "throws"
         \/ Len(nameAnswer.text) > MaxNameLength
         \/ "\n" \in Range(nameAnswer.text) )
    => /\ searchName = request.guestName
       /\ HasStatus("name_check", "done")
       /\ thrown = ""

\* C27, amended: if the correction call throws or returns text that, with
\* the white space around it removed, is longer than 60 characters or
\* contains a line break, the later stages use the original subject string;
\* in every case the name_check stage ends with status done and the run
\* goes on to the search.
C27_Advisory ==
    NameChecked =>
        /\ ( \/ nameAnswer.kind = "throws"
             \/ Len(trim(nameAnswer.text)) > MaxNameLength
             \/ "\n" \in Range(trim(nameAnswer.text)) )
           => searchName = request.guestName
        /\ HasStatus("name_check", "done")
        /\ HasStatus("youtube", "active")
        /\ thrown = ""

\* the model answered with two lines and the original name was kept
C27_Witness ==
    /\ NameChecked
    /\ nameAnswer.text = <<"J", "a", "n", "e", "\n", "D", "o", "e">>
    /\ request.guestName = <<"L", "i">>
    /\ searchName = <<"L", "i">>

\* fetchTranscripts alone: the retrievals of video number scanned are over
\* and lastAttempts holds them
VideoStored == tracks # <<>> /\ scanned >= 1 /\ pc \in {"tr_auto", "tr_done"}

\* the first code of the list the provider has segments for, 0 if none
FirstYielding(t) ==
    LET codes == <<"en", "hi", "es", "pt", "fr", "de", "ja", "ko", "ar", "ru", "zh">>
    IN  IF \E i \in 1..11 : codes[i] \in t.avail
        THEN CHOOSE i \in 1..11 :
               codes[i] \in t.avail /\ \A j \in 1..(i - 1) : codes[j] \notin t.avail
        ELSE 0

\* C28: whenever the auto-detected retrieval of a video yields no transcript
\* (it throws or returns no segments), the codes en, hi, es, pt, fr, de, ja,
\* ko, ar, ru, zh are requested in exactly that order up to the first one
\* that yields segments, or all of them if none does; no code after the
\* first success is requested and the recorded language is that code.
C28_LanguageFallback ==
    (VideoStored /\ tracks[scanned].auto # "some") =>
        LET codes == <<"en", "hi", "es", "pt", "fr", "de", "ja", "ko", "ar", "ru", "zh">>
            k == FirstYielding(tracks[scanned])
        IN  /\ lastAttempts = <<"auto">> \o (IF k > 0 THEN SubSeq(codes, 1, k) ELSE codes)
            /\ k > 0 => lang = codes[k]

\* the number of the first i videos whose retrievals yielded segments with a
\* normalized text of more than 100 characters
RECURSIVE Yielded(_)
Yielded(i) ==
    IF i = 0 THEN 0
    ELSE Yielded(i - 1)
         + (IF /\ \/ tracks[i].auto = "some"
                  \/ tracks[i].auto = "throws" /\ tracks[i].avail # {}
               /\ tracks[i].len > 100
            THEN 1 ELSE 0)

\* C29: fetchTranscripts puts every video it has scanned in exactly one of
\* transcripts and failedVideos: in transcripts if and only if a retrieval
\* yielded segments whose normalized text is longer than 100 characters;
\* the stored text is the first 15000 characters at most; after each video
\* one transcripts progress event is emitted, whose success count is the
\* number of transcripts so far and so never decreases.
C29_TranscriptPartition ==
    tracks # <<>> =>
        /\ Ids(transcripts) \cap Range(failedVideos) = {}
        /\ Ids(transcripts) \cup Range(failedVideos) = 1..scanned
        /\ Len(transcripts) + Len(failedVideos) = scanned
        /\ \A i \in 1..scanned :
             i \in Ids(transcripts) <=> (Yielded(i) = Yielded(i - 1) + 1)
        /\ \A i \in 1..Len(transcripts) :
             /\ transcripts[i].chars <= 15000
             /\ transcripts[i].chars = Min(tracks[transcripts[i].videoId].len, 15000)
        /\ Len(events) = scanned
        /\ \A i \in 1..Len(events) :
             /\ events[i].step = "transcripts"
             /\ events[i].scanned = i
             /\ events[i].succeeded = Yielded(i)
             /\ i > 1 => events[i].succeeded >= events[i - 1].succeeded

\* two videos scanned: one stored with a text cut to 15000 characters, found
\* by the language fallback, the other failed
C29_Witness ==
    /\ pc = "tr_done"
    /\ scanned = 2
    /\ Len(transcripts) = 1 /\ Len(failedVideos) = 1
    /\ transcripts[1].chars = MaxTranscriptChars
    /\ transcripts[1].lang = "zh"
    /\ tracks[transcripts[1].videoId].len > MaxTranscriptChars

\* research.js:431-467: the model calls webResearch made for the value it returned
WebCalls(webValue) == IF webValue.source = "gemini-google-search" THEN 1 ELSE 2

\* the external calls of a run stay within their ceilings
CallCeilings ==
    /\ queriesIssued <= 13
    /\ Len(lastAttempts) <= 12
    /\ watchCalls <= Len(failedVideos)
    /\ synthesisCalls <= 3
    /\ metadataCalls <= 1
    /\ WebCalls(web) <= 2
    /\ Len(wikiRequests) <= 4
    /\ Len(questionCalls) <= 6

\* the stages still ahead of a run suspended at pc
StagesAhead ==
    CASE pc = "request" -> 10
      [] pc = "name_check" -> 9
      [] pc = "youtube" -> 8
      [] pc = "youtube_return" -> 7
      [] pc = "transcripts" -> 6
      [] pc = "gemini_video" -> 5
      [] pc = "analyze_videos" -> 4
      [] pc = "metadata" -> 3
      [] pc = "web_search" -> 2
      [] pc = "returned" -> 1
      [] pc = "wiki_summary" -> 4
      [] pc = "wiki_search" -> 3
      [] pc = "wiki_summary2" -> 2
      [] pc = "wiki_full" -> 1
      [] pc = "gq_request" -> 2
      [] pc = "gq_call" -> 1
      [] OTHER -> 0

\* the loop iterations still ahead in the stage the run is suspended in
IterationsAhead ==
    CASE pc = "youtube" -> 14 - queryIndex
      [] pc = "transcripts" -> Len(ytResult.interviews) - scanned
      [] pc = "gemini_video" ->
            2 * (Len(failedVideos) + batchSize - watchIndex)
              + (IF watchStopped THEN 0 ELSE 1)
      [] pc = "analyze_videos" -> 4 - attempt
      [] pc = "gq_call" -> 6 - Len(questionCalls)
      [] OTHER -> 0

\* a natural number that every step of a run decreases
StepsAhead == 1000 * StagesAhead + IterationsAhead

\* C30: no stage retries indefinitely: a run makes at most 13 search
\* queries, 12 transcript attempts per video, one analysis call per
\* transcript-less video, 3 synthesis attempts, 1 metadata call, 2
\* web-dossier calls and 4 encyclopedia requests, question generation at
\* most 6 model calls, and every run terminates, since each step in which an
\* external call settles decreases a natural number.
C30_BoundedRun ==
    /\ [](CallCeilings /\ IterationsAhead \in 0..999)
    /\ [][StepsAhead' < StepsAhead]_vars

\* a finished run that used all three synthesis attempts, the metadata call
\* and both web-dossier calls after analysing a transcript-less video
C30_Witness ==
    /\ pc = "done"
    /\ synthesisCalls = 3
    /\ metadataCalls = 1
    /\ web.source = "gemini-knowledge"
    /\ watchCalls = Len(failedVideos) /\ watchCalls >= 1

\* C31: a model-watch call that never responds cannot stall the stage: once
\* the stage has returned, every issued call that never responded was
\* settled by the timeout and left no record, the stage was ended by the
\* breaker or by the end of the list and by nothing else, and under fair
\* scheduling the stage does return.
C31_StuckCallCannotStall ==
    /\ [](pc = "gw_done" =>
            /\ \A i \in 1..Len(call) :
                  (call[i] # "idle" /\ watchBehaviour[i] = "stuck")
                     => (settled[i] = "timeout" /\ i \notin Ids(results))
            /\ watchStopped
                  \/ watchIndex > Len(videosToAnalyze(isPro, WatchInput)))
    /\ <>(pc = "gw_done")

\* a request never answered, and a later video was analyzed all the same
C31_Witness ==
    /\ pc = "gw_done" /\ ~isPro
    /\ \E i \in 1..Len(call) :
         /\ watchBehaviour[i] = "stuck" /\ settled[i] = "timeout"
         /\ \E j \in Ids(results) : j > i

\* the calls of earlier iterations have all settled, and the record ids of
\* results ascend as the input does
SettledBeforeNext ==
    /\ \A i \in 1..Len(call) :
          (call[i] # "idle" /\ settled[i] = "none") => i \in CurrentBatch
    /\ \A k \in 1..(Len(results) - 1) :
          results[k].videoId < results[k + 1].videoId

\* C32: at most one model-watch request is in flight in Free mode and at
\* most three in Pro mode, a request whose timeout has fired and which has
\* not answered included; a call or batch is issued only after every call
\* of the previous one has settled, and results holds the records in input
\* order.
C32_ConcurrencyBound ==
    /\ Cardinality(InFlight) <= (IF isPro THEN batchSize ELSE 1)
    /\ SettledBeforeNext

\* C33: in Free mode the accumulated, deduplicated video list never holds
\* more than 100 videos, at any point of the search loop.
C33_FreeAccumulationCap ==
    (~isPro /\ pc \in {"youtube", "youtube_return"})
        => Len(allVideos) <= FreeMaxVideoCap

\* the status a row displays: its icon
ShownStatus(el) ==
    IF el.icon = "step-spinner" THEN "active"
    ELSE IF el.icon = "step-check" THEN "done"
    ELSE "error"

\* the last event fed for a stage
LastFed(step) ==
    fed[CHOOSE i \in 1..Len(fed) :
          /\ fed[i].step = step
          /\ \A j \in (i + 1)..Len(fed) : fed[j].step # step]

\* the stages with a row are the stages seen, start and complete left out,
\* and no two stages share a row
OneRowPerStage ==
    /\ DOMAIN stepElements =
          {fed[i].step : i \in 1..Len(fed)} \ {"start", "complete"}
    /\ Len(stepsEl) = Cardinality(DOMAIN stepElements)
    /\ \A s, t \in DOMAIN stepElements :
          /\ stepElements[s] \in 1..Len(stepsEl)
          /\ s # t => stepElements[s] # stepElements[t]

\* C34: after any sequence of progress events the list holds exactly one
\* row per stage seen other than start and complete, and each row shows the
\* message and the status of the most recent event of its stage.
C34_RowShowsLatest ==
    /\ OneRowPerStage
    /\ \A s \in DOMAIN stepElements :
          /\ stepsEl[stepElements[s]].message = LastFed(s).message
          /\ ShownStatus(stepsEl[stepElements[s]]) = LastFed(s).status

\* the frames that lie whole within the characters handed over
CompleteFrames ==
    CHOOSE k \in 0..Len(stream) :
      /\ Len(Concat(SubSeq(stream, 1, k))) <= delivered
      /\ k < Len(stream) => Len(Concat(SubSeq(stream, 1, k + 1))) > delivered

\* the events of the frames that carry one
RECURSIVE EventsOf(_)
EventsOf(frames) ==
    IF frames = <<>> THEN <<>>
    ELSE (IF Head(frames).event.type = "none" THEN <<>> ELSE <<Head(frames).event>>)
           \o EventsOf(Tail(frames))

\* C35: however the stream is cut into chunks, the events handled so far
\* are the events of the frames received whole, each once and in the order
\* sent, an unparseable frame among them stopping none of the later ones,
\* and the buffer holds the characters received of the frame that is not
\* whole yet.
C35_Framing ==
    pc \in {"read", "read_done"} =>
        /\ handled = EventsOf(SubSeq(stream, 1, CompleteFrames))
        /\ buffer = SubSeq(Written,
                           Len(Concat(SubSeq(stream, 1, CompleteFrames))) + 1,
                           delivered)

\* the result was handled although the frame before it did not parse, and
\* the part of the next frame that has arrived waits in the buffer
C35_Witness ==
    /\ pc = "read"
    /\ Len(stream) = 3 /\ stream[1].event.type = "none"
    /\ handled = <<stream[2].event>> /\ handled[1].type = "result"
    /\ stream[3].event.message = <<LF, LF>>
    /\ Len(buffer) > 6

\* C36: at most one research request is in flight per page: a trigger while
\* isResearching is set sends no request, and isResearching is set exactly
\* while a request is in flight, so that it is reset on every path on which
\* the stream ends or fails and a later trigger is accepted.
C36_ResearchLock ==
    /\ [](/\ Cardinality(InFlightRuns) <= 1
          /\ isResearching <=> InFlightRuns # {})
    /\ [][isResearching => Len(invocations') = Len(invocations)]_vars

\* a trigger during the first run was ignored and one after it was accepted
C36_Witness ==
    /\ triggers = <<"sent", "locked", "sent">>
    /\ invocations[1] = "over" /\ invocations[2] = "read"

\* C40: while a run waits for its response or for its result event, or for
\* its own display timer, its progress panel is shown and no results are
\* displayed: the display timer of an older run hides nothing and shows
\* nothing.
C40_OldTimerHarmless ==
    \A r \in InFlightRuns :
        (invocations[r] \in {"fetch", "read"} \/ r \in timers)
            => (progressEl = "block" /\ researchResults.display = "none")

\* C37: for a subject that is not empty, the name the search and the later
\* stages use is not empty, whatever the correction call answers.
C37_SearchNameNeverEmpty ==
    (NameChecked /\ request.guestName # <<>>) => searchName # <<>>

\* the stages of the pipeline: every step of StageOrder but the two marks
\* start and complete
Stages == Range(StageOrder) \ {"start", "complete"}

\* the run has emitted its complete event
Completed == events # <<>> /\ events[Len(events)].step = "complete"

\* the status of the last event of a stage that has one
LastStatus(step) ==
    events[CHOOSE i \in 1..Len(events) :
             /\ events[i].step = step
             /\ \A j \in (i + 1)..Len(events) : events[j].step # step].status

\* C38, as claimed: when the complete event is emitted, the last event of
\* every stage that emitted an active event, the stage start included, has
\* status done or error.
C38_NoStageLeftActiveAsClaimed ==
    Completed =>
        \A step \in Range(StageOrder) \ {"complete"} :
            HasStatus(step, "active") => LastStatus(step) \in {"done", "error"}

\* C38: when the complete event is emitted, the last event of every stage
\* other than start that emitted an event has status done or error, and
\* start has emitted its one event, of status active.
C38_NoStageLeftActive ==
    Completed =>
        /\ \A step \in Stages :
              HasEvent(step) => LastStatus(step) \in {"done", "error"}
        /\ LastStatus("start") = "active"

\* a run in which the model-watch stage and the synthesis both failed
\* reached its complete event
C38_Witness ==
    /\ Completed
    /\ HasStatus("gemini_video", "error")
    /\ HasStatus("analyze_videos", "error")
    /\ HasStatus("youtube", "done")

\* C39: after the breaker of the model-watch stage has tripped, the last
\* gemini_video event of the run has status error.
C39_WarningStays ==
    (watchStopped /\ pc # "gemini_video") => LastStatus("gemini_video") = "error"

====
